---- MODULE Spec2Model ----
(***************************************************************************)
(* Model of the Obsidian "Wikipedia Data" plugin (src/main.ts).            *)
(*                                                                         *)
(* A JavaScript string is a sequence of one-character strings, so that     *)
(* String.prototype.replace, trim, split, slice and RegExp matching are    *)
(* computed character by character as the runtime computes them.           *)
(* A SyntaxError thrown where a string is computed is the one-element      *)
(* sequence <<"#SyntaxError">>, which is no JavaScript string of the       *)
(* model; a TypeError thrown where a record is computed is the record      *)
(* [thrown |-> "TypeError"].                                               *)
(***************************************************************************)
EXTENDS Integers, Sequences, FiniteSets, TLC

VARIABLES settings, inv, inv2, requests, notices, editor

vars == <<settings, inv, inv2, requests, notices, editor>>

----------------------------------------------------------------------------
(* JavaScript string primitives                                            *)

\* the whitespace String.prototype.trim removes (the characters of the model)
WhiteSpace == {" ", "\n", "\t"}

UpperCase == <<"A","B","C","D","E","F","G","H","I","J","K","L","M","N","O","P","Q","R","S","T","U","V","W","X","Y","Z">>
LowerCase == <<"a","b","c","d","e","f","g","h","i","j","k","l","m","n","o","p","q","r","s","t","u","v","w","x","y","z">>

\* Canonicalize of the RegExp "i" flag, on one character
ToLower(c) ==
    IF \E i \in 1..Len(UpperCase) : UpperCase[i] = c
    THEN LowerCase[CHOOSE i \in 1..Len(UpperCase) : UpperCase[i] = c]
    ELSE c

\* s.indexOf(p) + 1, and 0 when p does not occur in s
IndexOf(s, p) ==
    LET hits == {i \in 1..(Len(s) - Len(p) + 1) : SubSeq(s, i, i + Len(p) - 1) = p}
    IN  IF hits = {} THEN 0 ELSE CHOOSE i \in hits : \A j \in hits : i <= j

\* s.includes(p) (Obsidian's String.prototype.contains)
Contains(s, p) == IndexOf(s, p) > 0

\* number of (possibly overlapping) occurrences of p in s
Count(s, p) ==
    Cardinality({i \in 1..(Len(s) - Len(p) + 1) : SubSeq(s, i, i + Len(p) - 1) = p})

\* s.trim()
Trim(s) ==
    LET keep == {i \in 1..Len(s) : s[i] \notin WhiteSpace}
    IN  IF keep = {} THEN <<>>
        ELSE SubSeq(s, CHOOSE i \in keep : \A j \in keep : i <= j,
                       CHOOSE i \in keep : \A j \in keep : i >= j)

\* GetSubstitution (ECMA-262 22.1.3.19.1) for a match without capture groups:
\* in the replacement text, $$ is $, $& the matched text and $' the text after
\* the match; every other $ of the model's strings stays as written (the
\* grave accent of the fourth pattern is no character of the model).
RECURSIVE GetSubstitution(_, _, _)
GetSubstitution(rep, matched, after) ==
    IF rep = <<>> THEN <<>>
    ELSE IF rep[1] = "$" /\ Len(rep) >= 2 /\ rep[2] \in {"$", "&", "'"}
    THEN (CASE rep[2] = "$" -> <<"$">>
            [] rep[2] = "&" -> matched
            [] rep[2] = "'" -> after)
         \o GetSubstitution(SubSeq(rep, 3, Len(rep)), matched, after)
    ELSE <<rep[1]>> \o GetSubstitution(Tail(rep), matched, after)

\* the result of replacing the len characters of s at position pos
Splice(s, pos, len, rep) ==
    LET before  == SubSeq(s, 1, pos - 1)
        matched == SubSeq(s, pos, pos + len - 1)
        after   == SubSeq(s, pos + len, Len(s))
    IN  before \o GetSubstitution(rep, matched, after) \o after

\* s.replaceAll(p, rep): every occurrence, left to right
RECURSIVE ReplaceAll(_, _, _)
ReplaceAll(s, p, rep) ==
    IF IndexOf(s, p) = 0 THEN s
    ELSE SubSeq(s, 1, IndexOf(s, p) - 1)
         \o GetSubstitution(rep, p, SubSeq(s, IndexOf(s, p) + Len(p), Len(s)))
         \o ReplaceAll(SubSeq(s, IndexOf(s, p) + Len(p), Len(s)), p, rep)

\* s.replace(p, rep) with a string pattern: the first occurrence only
ReplaceFirst(s, p, rep) ==
    IF IndexOf(s, p) = 0 THEN s ELSE Splice(s, IndexOf(s, p), Len(p), rep)

\* s.replace(/\n/, " "): the pattern without its g flag
ReplaceFirstNewline(s) == ReplaceFirst(s, <<"\n">>, <<" ">>)

\* s.replace(/\n/g, " ")
RECURSIVE ReplaceNewlines(_)
ReplaceNewlines(s) ==
    IF s = <<>> THEN <<>>
    ELSE <<IF s[1] = "\n" THEN " " ELSE s[1]>> \o ReplaceNewlines(Tail(s))

\* s.split(sep) for a non-empty separator
RECURSIVE Split(_, _)
Split(s, sep) ==
    IF IndexOf(s, sep) = 0 THEN <<s>>
    ELSE <<SubSeq(s, 1, IndexOf(s, sep) - 1)>>
         \o Split(SubSeq(s, IndexOf(s, sep) + Len(sep), Len(s)), sep)

\* parts.join("")
RECURSIVE Join(_)
Join(parts) == IF parts = <<>> THEN <<>> ELSE Head(parts) \o Join(Tail(parts))

\* Number.prototype.toString() of a natural number
RECURSIVE NatToString(_)
NatToString(n) ==
    IF n < 10 THEN <<<<"0","1","2","3","4","5","6","7","8","9">>[n + 1]>>
    ELSE NatToString(n \div 10) \o <<<<"0","1","2","3","4","5","6","7","8","9">>[(n % 10) + 1]>>

----------------------------------------------------------------------------
(* new RegExp(searchTerm, "i"): the pattern characters of the model are    *)
(* literal characters, "." (any character but a line terminator) and "("   *)
(* (an unterminated group: the constructor throws a SyntaxError).          *)

SyntaxError == <<"#SyntaxError">>

\* the TypeError thrown where a string is computed from undefined
UndefinedTypeError == <<"#TypeError">>

\* is the result of a formatter the exception it threw
IsThrow(v) == v \in {SyntaxError, UndefinedTypeError}

RegExpCompiles(p) == \A i \in 1..Len(p) : p[i] # "("

\* does pattern character pc match text character c under the "i" flag
CharMatches(pc, c) == IF pc = "." THEN c # "\n" ELSE ToLower(pc) = ToLower(c)

\* position of the leftmost match of p in s, 0 when there is none
RegExpIndex(s, p) ==
    LET hits == {i \in 1..(Len(s) - Len(p) + 1) :
                    \A k \in 1..Len(p) : CharMatches(p[k], s[i + k - 1])}
    IN  IF hits = {} THEN 0 ELSE CHOOSE i \in hits : \A j \in hits : i <= j

\* s.replace(new RegExp(p, "i"), rep): the leftmost match only
RegExpReplaceFirst(s, p, rep) ==
    IF ~RegExpCompiles(p) THEN SyntaxError
    ELSE IF RegExpIndex(s, p) = 0 THEN s
    ELSE Splice(s, RegExpIndex(s, p), Len(p), rep)

----------------------------------------------------------------------------
(* values of the program                                                   *)

\* the value of a property the JSON object does not have
Undefined == <<"#undefined">>

\* obj[key] of a decoded JSON object
Get(obj, key) == IF key \in DOMAIN obj THEN obj[key] ELSE Undefined

\* template placeholder tokens
TokTitle == <<"{","{","t","i","t","l","e","}","}">>
TokUrl == <<"{","{","u","r","l","}","}">>
TokThumbnailTemplate == <<"{","{","t","h","u","m","b","n","a","i","l","T","e","m","p","l","a","t","e","}","}">>
TokThumbnailUrl == <<"{","{","t","h","u","m","b","n","a","i","l","U","r","l","}","}">>
TokDescription == <<"{","{","d","e","s","c","r","i","p","t","i","o","n","}","}">>
TokSummary == <<"{","{","s","u","m","m","a","r","y","}","}">>
TokIntroText == <<"{","{","i","n","t","r","o","T","e","x","t","}","}">>
TokId == <<"{","{","i","d","}","}">>
TokKey == <<"{","{","k","e","y","}","}">>
TokParagraphText == <<"{","{","p","a","r","a","g","r","a","p","h","T","e","x","t","}","}">>

\* the tokens formatTemplate replaces, in the order of its replace chain
RecognizedTokens ==
    <<TokTitle, TokUrl, TokThumbnailTemplate, TokThumbnailUrl, TokDescription,
      TokSummary, TokIntroText, TokId, TokKey>>

wikimediaApiUrlBase == <<"w","i","k","i","p","e","d","i","a",".","o","r","g","/","a","p","i","/","r","e","s","t","_","v","1","/">>
mediaWikiApiUrlBase == <<"w","i","k","i","p","e","d","i","a",".","o","r","g","/","w","/","r","e","s","t",".","p","h","p","/","v","1","/">>
mediaWikiActionApiUrlBase == <<"w","i","k","i","p","e","d","i","a",".","o","r","g","/","w","/","a","p","i",".","p","h","p">>

defaultWikipediaTemplateOne ==
    <<"|"," ","{","{","t","h","u","m","b","n","a","i","l","T","e","m","p","l","a","t","e","}","}"," ","|"," ","{","{","s","u","m","m","a","r","y","}","}"," ","|","\n","|","-","|","-","|","\n","|"," ","|"," ","w","i","k","i","p","e","d","i","a",":",":"," ","[","{","{","t","i","t","l","e","}","}","]","(","{","{","u","r","l","}","}",")"," ","|","\n">>

defaultWikipediaTemplateTwo == <<">"," ","[","!","s","u","m","m","a","r","y","]","-"," ","W","i","k","i","p","e","d","i","a"," ","S","y","n","o","p","s","i","s","\n","{","{","i","n","t","r","o","T","e","x","t","}","}","\n">>

defaultWikipediaTemplateThree ==
    <<"|"," ","{","{","t","h","u","m","b","n","a","i","l","T","e","m","p","l","a","t","e","}","}"," ","|"," ","{","{","s","u","m","m","a","r","y","}","}"," ","|","\n","|","-","|","-","|","\n","|"," ","|"," ","w","i","k","i","p","e","d","i","a",":",":"," ","[","{","{","t","i","t","l","e","}","}","]","(","{","{","u","r","l","}","}",")"," ","|","\n",">"," ","[","!","s","u","m","m","a","r","y","]","-"," ","W","i","k","i","p","e","d","i","a"," ","S","y","n","o","p","s","i","s","\n","{","{","i","n","t","r","o","T","e","x","t","}","}","\n">>

DEFAULT_SETTINGS ==
    [language |-> <<"e","n">>,
     shouldBoldSearchTerm |-> TRUE,
     wikipediaTemplates |-> <<defaultWikipediaTemplateOne, defaultWikipediaTemplateTwo,
                              defaultWikipediaTemplateThree>>,
     thumbnailTemplate |-> <<"!","[","i","m","g"," ","\\","|","1","5","0","]","(","{","{","t","h","u","m","b","n","a","i","l","U","r","l","}","}",")">>,
     useParagraphTemplate |-> TRUE,
     paragraphTemplate |-> <<">"," ","{","{","p","a","r","a","g","r","a","p","h","T","e","x","t","}","}","\n",">","\n">>]

\* the description the title search gives a disambiguation page
DisambiguationDescription == <<"T","o","p","i","c","s"," ","r","e","f","e","r","r","e","d"," ","t","o"," ","b","y"," ","t","h","e"," ","s","a","m","e"," ","t","e","r","m">>

----------------------------------------------------------------------------
(* request URLs                                                            *)

\* the language prefix the invocation read for its first request, kept for
\* its later requests
getLanguageAtStart(st) ==
    IF requests = <<>>
    THEN (IF st.language \notin {<<>>, Undefined} THEN st.language ELSE <<"e","n">>)
    ELSE SubSeq(requests[1], 9, IndexOf(requests[1], <<".","w","i","k","i","p","e","d","i","a",".","o","r","g">>) - 1)

\* the language prefix as it is stored, with no default
getLanguageStored(st) == st.language

\* settings.language ? settings.language : "en"
getLanguage(st) == IF st.language \notin {<<>>, Undefined} THEN st.language ELSE <<"e","n">>

getWikimediaApiUrl(st) ==
    <<"h","t","t","p","s",":","/","/">> \o getLanguage(st) \o <<".">> \o wikimediaApiUrlBase \o <<"p","a","g","e","/","s","u","m","m","a","r","y","/">>

getMediaWikiApiUrl(st) ==
    <<"h","t","t","p","s",":","/","/">> \o getLanguage(st) \o <<".">> \o mediaWikiApiUrlBase \o <<"s","e","a","r","c","h","/","t","i","t","l","e","?","q","=">>

getMediaWikiActionApiUrl(st) ==
    <<"h","t","t","p","s",":","/","/">> \o getLanguage(st) \o <<".">> \o mediaWikiActionApiUrlBase
    \o <<"?","f","o","r","m","a","t","=","j","s","o","n","&","a","c","t","i","o","n","=","q","u","e","r","y","&","p","r","o","p","=","e","x","t","r","a","c","t","s","&","e","x","p","l","a","i","n","t","e","x","t","=","1","&","r","e","d","i","r","e","c","t","s","&","o","r","i","g","i","n","=","*","&","p","a","g","e","i","d","s","=">>

\* the characters encodeURIComponent leaves as they are
Unreserved ==
    {UpperCase[i] : i \in 1..Len(UpperCase)} \cup {LowerCase[i] : i \in 1..Len(LowerCase)}
    \cup {"0", "1", "2", "3", "4", "5", "6", "7", "8", "9"}
    \cup {"-", "_", ".", "!", "~", "*", "'", "(", ")"}

\* the percent escapes of the other characters of the model
Escapes ==
    <<<<" ", <<"%","2","0">>>>, <<"\n", <<"%","0","A">>>>, <<"\t", <<"%","0","9">>>>, <<"$", <<"%","2","4">>>>,
      <<"&", <<"%","2","6">>>>, <<"{", <<"%","7","B">>>>, <<"}", <<"%","7","D">>>>,
      <<"/", <<"%","2","F">>>>, <<":", <<"%","3","A">>>>, <<"=", <<"%","3","D">>>>, <<">", <<"%","3","E">>>>,
      <<"|", <<"%","7","C">>>>, <<"[", <<"%","5","B">>>>, <<"]", <<"%","5","D">>>>, <<"\\", <<"%","5","C">>>>,
      <<"#", <<"%","2","3">>>>, <<",", <<"%","2","C">>>>, <<"?", <<"%","3","F">>>>, <<"+", <<"%","2","B">>>>,
      <<"%", <<"%","2","5">>>>>>

EscapeOf(c) == Escapes[CHOOSE i \in 1..Len(Escapes) : Escapes[i][1] = c][2]

RECURSIVE encodeURIComponent(_)
encodeURIComponent(s) ==
    IF s = <<>> THEN <<>>
    ELSE (IF s[1] \in Unreserved THEN <<s[1]>> ELSE EscapeOf(s[1]))
         \o encodeURIComponent(Tail(s))

----------------------------------------------------------------------------
(* text formatters and the template renderer                               *)

\* `**${searchTerm}**`
Emphasized(searchTerm) == <<"*","*">> \o searchTerm \o <<"*","*">>

\* formattedText.replace(new RegExp(searchTerm, "i"), `**${searchTerm}**`)
boldSearchTerm(text, searchTerm) ==
    RegExpReplaceFirst(text, searchTerm, Emphasized(searchTerm))

\* the summary formatter emphasizes the search term whatever the setting
formatWikimediaApiSummaryAlwaysBold(st, wikimediaApiResponse, searchTerm) ==
    LET formattedSummary == ReplaceNewlines(Trim(wikimediaApiResponse.summary))
    IN  IF wikimediaApiResponse.summary = Undefined THEN UndefinedTypeError
        ELSE boldSearchTerm(formattedSummary, searchTerm)

\* summary.trim() throws when the record has no summary
formatWikimediaApiSummary(st, wikimediaApiResponse, searchTerm) ==
    LET formattedSummary == ReplaceNewlines(Trim(wikimediaApiResponse.summary))
    IN  IF wikimediaApiResponse.summary = Undefined THEN UndefinedTypeError
        ELSE IF st.shouldBoldSearchTerm
        THEN boldSearchTerm(formattedSummary, searchTerm)
        ELSE formattedSummary

\* the search term is emphasized in each paragraph before the paragraph is
\* put in the place of {{paragraphText}}
applyParagraphTemplateEmphasized(st, split) ==
    [i \in 1..Len(split) |->
        ReplaceFirst(st.paragraphTemplate, TokParagraphText,
                     IF st.shouldBoldSearchTerm THEN boldSearchTerm(split[i], inv.searchTerm)
                     ELSE split[i])]

\* split.map(paragraph => paragraphTemplate.replace("{{paragraphText}}", paragraph))
applyParagraphTemplate(st, split) ==
    [i \in 1..Len(split) |-> ReplaceFirst(st.paragraphTemplate, TokParagraphText, split[i])]

\* the trailing '>' edge case handled in a loop, until no '>' ends the text
RECURSIVE stripTrailingArtifactRepeated(_)
stripTrailingArtifactRepeated(formattedText) ==
    IF formattedText # <<>> /\ formattedText[Len(formattedText)] = ">"
    THEN stripTrailingArtifactRepeated(SubSeq(formattedText, 1, Len(formattedText) - 2))
    ELSE formattedText

\* the trailing '>' edge case: formattedText.slice(0, formattedText.length - 2)
stripTrailingArtifact(formattedText) ==
    IF formattedText # <<>> /\ formattedText[Len(formattedText)] = ">"
    THEN SubSeq(formattedText, 1, Len(formattedText) - 2)
    ELSE formattedText

\* formattedText before the trailing '>' edge case is handled; text.split
\* throws when the record has no fullText
emphasizedIntroText(st, mediaWikiActionApiResponse, searchTerm) ==
    LET text == mediaWikiActionApiResponse.fullText
        intro == Trim(Split(text, <<"=","=">>)[1])
        assembled ==
            IF st.useParagraphTemplate
            THEN Trim(Join(applyParagraphTemplate(st, Split(intro, <<"\n">>))))
            ELSE intro
    IN  IF text = Undefined THEN UndefinedTypeError
        ELSE IF st.shouldBoldSearchTerm THEN boldSearchTerm(assembled, searchTerm)
        ELSE assembled

formatMediaWikiActionApiIntroText(st, mediaWikiActionApiResponse, searchTerm) ==
    LET formattedText == emphasizedIntroText(st, mediaWikiActionApiResponse, searchTerm)
    IN  IF IsThrow(formattedText) THEN formattedText
        ELSE stripTrailingArtifact(formattedText)

\* s without its {{...}} spans that are no recognized token
RECURSIVE StripUnresolved(_)
StripUnresolved(s) ==
    LET open == IndexOf(s, <<"{","{">>)
        rest == SubSeq(s, open, Len(s))
        close == IndexOf(rest, <<"}","}">>)
        token == SubSeq(rest, 1, close + 1)
        after == SubSeq(rest, close + 2, Len(rest))
    IN  IF open = 0 \/ close = 0 THEN s
        ELSE SubSeq(s, 1, open - 1)
             \o (IF \E k \in 1..Len(RecognizedTokens) : RecognizedTokens[k] = token
                 THEN token ELSE <<>>)
             \o StripUnresolved(after)

\* the selected template cleaned of the tokens the renderer does not know
selectTemplateStripped(st, wikipediaTemplateNum) ==
    StripUnresolved(st.wikipediaTemplates[wikipediaTemplateNum])

\* the first template slot, whatever the command
selectTemplateOne(st, wikipediaTemplateNum) == st.wikipediaTemplates[1]

\* the template selected by wikipediaTemplateNum
selectTemplate(st, wikipediaTemplateNum) == st.wikipediaTemplates[wikipediaTemplateNum]

\* the text inserted for {{thumbnailTemplate}}
thumbnailTemplateFor(st, wikimediaApiResponse) ==
    IF wikimediaApiResponse.thumbnailUrl # <<>> THEN st.thumbnailTemplate ELSE <<>>

\* the nine first-occurrence replacements in the opposite order
replaceChainReversed(template, thumbnailTemplate, summaryRec, formattedSummary, formattedIntroText, searchRec) ==
    LET t1 == ReplaceFirst(template, TokKey, searchRec.key)
        t2 == ReplaceFirst(t1, TokId, NatToString(searchRec.id))
        t3 == ReplaceFirst(t2, TokIntroText, formattedIntroText)
        t4 == ReplaceFirst(t3, TokSummary, formattedSummary)
        t5 == ReplaceFirst(t4, TokDescription, summaryRec.description)
        t6 == ReplaceFirst(t5, TokThumbnailUrl, summaryRec.thumbnailUrl)
        t7 == ReplaceFirst(t6, TokThumbnailTemplate, thumbnailTemplate)
        t8 == ReplaceFirst(t7, TokUrl, summaryRec.url)
    IN  ReplaceFirst(t8, TokTitle, summaryRec.title)

\* the chain of nine first-occurrence replacements
replaceChain(template, thumbnailTemplate, summaryRec, formattedSummary, formattedIntroText, searchRec) ==
    LET t1 == ReplaceFirst(template, TokTitle, summaryRec.title)
        t2 == ReplaceFirst(t1, TokUrl, summaryRec.url)
        t3 == ReplaceFirst(t2, TokThumbnailTemplate, thumbnailTemplate)
        t4 == ReplaceFirst(t3, TokThumbnailUrl, summaryRec.thumbnailUrl)
        t5 == ReplaceFirst(t4, TokDescription, summaryRec.description)
        t6 == ReplaceFirst(t5, TokSummary, formattedSummary)
        t7 == ReplaceFirst(t6, TokIntroText, formattedIntroText)
        t8 == ReplaceFirst(t7, TokId, NatToString(searchRec.id))
    IN  ReplaceFirst(t8, TokKey, searchRec.key)

\* the rendered text, or the exception a formatter threw
\* (searchRec, summaryRec, extractRec: mediaWikiApiResponse, wikimediaApiResponse,
\* mediaWikiActionApiResponse)
formatTemplate(st, searchRec, summaryRec, extractRec, searchTerm, wikipediaTemplateNum) ==
    LET formattedSummary == formatWikimediaApiSummary(st, summaryRec, searchTerm)
        formattedIntroText == formatMediaWikiActionApiIntroText(st, extractRec, searchTerm)
    IN  IF IsThrow(formattedSummary) THEN formattedSummary
        ELSE IF IsThrow(formattedIntroText) THEN formattedIntroText
        ELSE replaceChain(selectTemplate(st, wikipediaTemplateNum),
                          thumbnailTemplateFor(st, summaryRec),
                          summaryRec, formattedSummary, formattedIntroText, searchRec)

----------------------------------------------------------------------------
(* response normalizers.  A response is [kind |-> "notice"] when the       *)
(* request was rejected or its body was no JSON (resp is then the Notice   *)
(* object the catch handler returns), and a decoded JSON object otherwise. *)

TypeError == [thrown |-> "TypeError"]

\* json.content_urls.desktop.page throws when content_urls is absent
\* the summary normalizer reads the Notice object without raising and
\* returns a record of undefined fields
parseWikimediaApiResponseOfNotice(json) ==
    IF json.kind = "notice"
    THEN [type |-> Undefined, title |-> Undefined, summary |-> Undefined,
          description |-> Undefined, url |-> Undefined, thumbnailUrl |-> <<>>]
    ELSE IF ~json.hasContentUrls THEN TypeError
    ELSE [type |-> json.type,
          title |-> json.title,
          summary |-> Get(json, "extract"),
          description |-> json.description,
          url |-> json.page,
          thumbnailUrl |-> IF json.hasThumbnail THEN json.thumbnailSource ELSE <<>>]

parseWikimediaApiResponse(json) ==
    IF json.kind = "notice" \/ ~json.hasContentUrls THEN TypeError
    ELSE [type |-> json.type,
          title |-> json.title,
          summary |-> Get(json, "extract"),
          description |-> json.description,
          url |-> json.page,
          thumbnailUrl |-> IF json.hasThumbnail THEN json.thumbnailSource ELSE <<>>]

\* json.pages.length throws when pages is absent, json.pages[0].id when it is
\* empty; the page objects of the title search hold their thumbnail under
\* thumbnail.url and have no thumbnailUrl property
parseMediaWikiApiResponse(json) ==
    IF json.kind = "notice" \/ ~json.hasPages THEN TypeError
    ELSE IF json.pages = <<>> THEN TypeError
    ELSE [resultCount |-> Len(json.pages),
          id |-> json.pages[1].id,
          key |-> json.pages[1].key,
          title |-> json.pages[1].title,
          description |-> json.pages[1].description,
          thumbnailUrl |-> Get(json.pages[1], "thumbnailUrl")]

\* json.query.pages[id.toString()].extract throws when query is absent or has
\* no page under the id
parseMediaWikiActionApiResponse(json, id) ==
    IF json.kind = "notice" \/ ~json.hasQuery THEN TypeError
    ELSE IF \A p \in json.pages : p.pageid # NatToString(id) THEN TypeError
    ELSE [fullText |-> Get(CHOOSE p \in json.pages : p.pageid = NatToString(id),
                           "extract")]

----------------------------------------------------------------------------
(* notices shown to the user                                               *)

FailedNotice(source) == [kind |-> "Failed", source |-> source]

\* handleNotFound
handleNotFound(searchTerm) == <<[kind |-> "NotFound", searchTerm |-> searchTerm]>>

\* handleDisambiguation: the text notice, then the notice holding the link
handleDisambiguation(searchTerm, disambiguationUrl) ==
    <<[kind |-> "Disambiguation", searchTerm |-> searchTerm],
      [kind |-> "DisambiguationLink", searchTerm |-> searchTerm,
       href |-> disambiguationUrl]>>

\* the catch handler of one getter copied to the others with its message
noticeOfOneMessage(source, resp) ==
    IF resp.kind = "notice" THEN <<FailedNotice("search")>> ELSE <<>>

\* resp after the catch handler: a failed request shows the source's notice
noticeOf(source, resp) ==
    IF resp.kind = "notice" THEN <<FailedNotice(source)>> ELSE <<>>

----------------------------------------------------------------------------
(* pasteIntoEditor                                                         *)

\* the value of a local that holds no record
NoRecord == [undefined |-> TRUE]

\* classify with the disambiguation test placed before the not-found test
classifyDisambiguationFirst(mediaWikiApiResponse, wikimediaApiResponse) ==
    IF mediaWikiApiResponse = NoRecord THEN "NotFound"
    ELSE IF wikimediaApiResponse.type = <<"d","i","s","a","m","b","i","g","u","a","t","i","o","n">>
            \/ mediaWikiApiResponse.description = DisambiguationDescription
    THEN "Disambiguation"
    ELSE IF Contains(wikimediaApiResponse.type, <<"m","i","s","s","i","n","g","t","i","t","l","e">>)
            \/ mediaWikiApiResponse.resultCount = 0
    THEN "NotFound"
    ELSE "Resolved"

\* classify with the disambiguation test reading the search description only
classifyDescriptionOnly(mediaWikiApiResponse, wikimediaApiResponse) ==
    IF mediaWikiApiResponse = NoRecord THEN "NotFound"
    ELSE IF Contains(wikimediaApiResponse.type, <<"m","i","s","s","i","n","g","t","i","t","l","e">>)
            \/ mediaWikiApiResponse.resultCount = 0
    THEN "NotFound"
    ELSE IF mediaWikiApiResponse.description = DisambiguationDescription
    THEN "Disambiguation"
    ELSE "Resolved"

\* the if-chain of pasteIntoEditor
classify(mediaWikiApiResponse, wikimediaApiResponse) ==
    IF mediaWikiApiResponse = NoRecord THEN "NotFound"
    ELSE IF Contains(wikimediaApiResponse.type, <<"m","i","s","s","i","n","g","t","i","t","l","e">>)
            \/ mediaWikiApiResponse.resultCount = 0
    THEN "NotFound"
    ELSE IF wikimediaApiResponse.type = <<"d","i","s","a","m","b","i","g","u","a","t","i","o","n">>
            \/ mediaWikiApiResponse.description = DisambiguationDescription
    THEN "Disambiguation"
    ELSE "Resolved"

\* the request URL of each getter
searchRequestUrl(st, searchTerm) ==
    getMediaWikiApiUrl(st) \o encodeURIComponent(searchTerm) \o <<"&","l","i","m","i","t","=","5">>

\* the summary request keyed by the note title instead of the canonical title
summaryRequestUrlByTerm(st, title) ==
    getWikimediaApiUrl(st) \o encodeURIComponent(inv.searchTerm)

summaryRequestUrl(st, title) == getWikimediaApiUrl(st) \o encodeURIComponent(title)

extractRequestUrl(st, id) ==
    getMediaWikiActionApiUrl(st) \o encodeURIComponent(NatToString(id))

NewInvocation ==
    [pc |-> "idle", searchTerm |-> <<>>, wikipediaTemplateNum |-> 1,
     searchResp |-> NoRecord, summaryResp |-> NoRecord, extractResp |-> NoRecord,
     mediaWikiApiResponse |-> NoRecord, wikimediaApiResponse |-> NoRecord,
     mediaWikiActionApiResponse |-> NoRecord,
     outcome |-> "Pending", formatTemplateCalls |-> 0]

\* an exception is swallowed and the call falls into the branch of
\* pasteIntoEditor that tests for a missing search record
RejectedAsNotFound(i) == [i EXCEPT !.pc = "done", !.outcome = "NotFound"]

\* the invocation ended by an exception no caller catches
Rejected(i) == [i EXCEPT !.pc = "done", !.outcome = "Threw"]

----------------------------------------------------------------------------
(* inputs: note titles, settings and the responses of the three services   *)

\* titles of the active note; the last is no valid regular expression
Basenames == {<<"l","u","d","w","i","g">>, <<"M","e","r","c","u","r","y">>, <<"f","(","x">>}

ActiveFiles ==
    {[present |-> FALSE, basename |-> <<>>]}
    \cup {[present |-> TRUE, basename |-> b] : b \in Basenames \cup {<<>>}}

TemplateNums == 1..3

\* language prefixes of the saved data: two set, one empty, one unset (null)
Languages == {<<"e","n">>, <<"d","e">>, <<>>, Undefined}

\* loadSettings: the defaults overridden by the saved data
LoadedSettings ==
    {[DEFAULT_SETTINGS EXCEPT !.language = l, !.shouldBoldSearchTerm = b,
                              !.useParagraphTemplate = u] :
        l \in Languages, b \in BOOLEAN, u \in BOOLEAN}

NoticeResponse == [kind |-> "notice"]

PageLudwig ==
    [id |-> 17741, key |-> <<"L","u","d","w","i","g","_","W","i","t","t","g","e","n","s","t","e","i","n">>, title |-> <<"L","u","d","w","i","g"," ","W","i","t","t","g","e","n","s","t","e","i","n">>,
     description |-> <<"A","u","s","t","r","i","a","n"," ","p","h","i","l","o","s","o","p","h","e","r">>,
     thumbnail |-> [present |-> TRUE, url |-> <<"h","t","t","p","s",":","/","/","w",".","o","r","g","/","L","W","6","0",".","j","p","g">>]]

PageMercury ==
    [id |-> 7, key |-> <<"M","e","r","c","u","r","y">>, title |-> <<"M","e","r","c","u","r","y">>,
     description |-> DisambiguationDescription,
     thumbnail |-> [present |-> FALSE, url |-> <<>>]]

\* the longest page list of a title search of the model
MaxPages == 2

PageLists == UNION {[1..n -> {PageLudwig, PageMercury}] : n \in 0..MaxPages}

SearchResponses ==
    {NoticeResponse, [kind |-> "json", hasPages |-> FALSE]}
    \cup {[kind |-> "json", hasPages |-> TRUE, pages |-> ps] : ps \in PageLists}

SummaryTypes == {<<"s","t","a","n","d","a","r","d">>, <<"d","i","s","a","m","b","i","g","u","a","t","i","o","n">>, <<"e","r","r","o","r","s","/","m","i","s","s","i","n","g","t","i","t","l","e">>}

\* the summary object of a page, with its extract property or without it
SummaryJson(type, hasThumbnail, hasExtract) ==
    LET json == [kind |-> "json", hasContentUrls |-> TRUE, type |-> type,
                 title |-> <<"L","u","d","w","i","g"," ","J","o","s","e","f"," ","W","i","t","t","g","e","n","s","t","e","i","n">>,
                 description |-> <<"A","u","s","t","r","i","a","n","-","B","r","i","t","i","s","h"," ","p","h","i","l","o","s","o","p","h","e","r">>,
                 page |-> <<"h","t","t","p","s",":","/","/","w",".","o","r","g","/","L","W">>,
                 hasThumbnail |-> hasThumbnail,
                 thumbnailSource |-> <<"h","t","t","p","s",":","/","/","w",".","o","r","g","/","L","W",".","j","p","g">>]
    IN  IF hasExtract
        THEN json @@ [extract |-> <<"L","u","d","w","i","g"," ","w","a","s"," ","a"," ","p","h","i","l","o","s","o","p","h","e","r",".","\n","H","e"," ","w","r","o","t","e",".","\n">>]
        ELSE json

SummaryResponses ==
    {NoticeResponse, [kind |-> "json", hasContentUrls |-> FALSE]}
    \cup {SummaryJson(ty, th, he) : ty \in SummaryTypes, th \in BOOLEAN, he \in BOOLEAN}

ExtractText == <<"L","u","d","w","i","g"," ","w","a","s"," ","b","o","r","n",".","\n","H","e"," ","w","r","o","t","e",".","\n","\n","\n","=","="," ","L","i","f","e"," ","=","=","\n","i","g","n","o","r","e","d">>

ExtractResponses ==
    {NoticeResponse, [kind |-> "json", hasQuery |-> FALSE]}
    \cup {[kind |-> "json", hasQuery |-> TRUE,
           pages |-> {[pageid |-> NatToString(n), extract |-> ExtractText]}] :
            n \in {PageLudwig.id, PageMercury.id}}
    \cup {[kind |-> "json", hasQuery |-> TRUE,
           pages |-> {[pageid |-> NatToString(PageLudwig.id), missing |-> <<>>]}]}

----------------------------------------------------------------------------
(* the steps of one invocation.  A step computes, from the settings, the   *)
(* locals i of the invocation and the response it resumes with, the locals *)
(* after the step and what the step sends, shows and inserts.              *)

\* a step that shows a notice also writes an empty text into the note
EffectWithNoticeInNote(i, sent, shown, inserted) ==
    [inv |-> i, requests |-> sent, notices |-> shown,
     editor |-> IF shown # <<>> THEN <<<<>>>> ELSE inserted]

\* a step that shows a failure notice sends its request a second time
EffectResending(i, sent, shown, inserted) ==
    [inv |-> i,
     requests |-> IF shown # <<>> /\ shown[1].kind = "Failed" /\ requests # <<>>
                  THEN <<requests[Len(requests)]>> ELSE sent,
     notices |-> shown, editor |-> inserted]

Effect(i, sent, shown, inserted) ==
    [inv |-> i, requests |-> sent, notices |-> shown, editor |-> inserted]

\* applyTemplateForActiveNote up to the first await of pasteIntoEditor
startStep(st, i, activeFile, wikipediaTemplateNum) ==
    IF activeFile.present /\ activeFile.basename # <<>>
    THEN Effect([i EXCEPT !.pc = "awaitSearch",
                          !.searchTerm = activeFile.basename,
                          !.wikipediaTemplateNum = wikipediaTemplateNum],
                <<searchRequestUrl(st, activeFile.basename)>>, <<>>, <<>>)
    ELSE Effect([i EXCEPT !.pc = "done", !.outcome = "NoOp"], <<>>, <<>>, <<>>)

\* getMediaWikiApiResponse resumes with resp, then getWikimediaApiResponse
\* issues its request
searchStep(st, i, resp) ==
    LET parsed == parseMediaWikiApiResponse(resp)
        got == [i EXCEPT !.searchResp = resp]
    IN  IF parsed = TypeError
        THEN Effect(Rejected(got), <<>>, noticeOf("search", resp), <<>>)
        ELSE Effect([got EXCEPT !.pc = "awaitSummary", !.mediaWikiApiResponse = parsed],
                    <<summaryRequestUrl(st, parsed.title)>>,
                    noticeOf("search", resp), <<>>)

\* getWikimediaApiResponse resumes with resp, then getMediaWikiActionApiResponse
\* issues its request
summaryStep(st, i, resp) ==
    LET parsed == parseWikimediaApiResponse(resp)
        got == [i EXCEPT !.summaryResp = resp]
    IN  IF parsed = TypeError
        THEN Effect(Rejected(got), <<>>, noticeOf("summary", resp), <<>>)
        ELSE Effect([got EXCEPT !.pc = "awaitExtract", !.wikimediaApiResponse = parsed],
                    <<extractRequestUrl(st, i.mediaWikiApiResponse.id)>>,
                    noticeOf("summary", resp), <<>>)

\* the last branch of pasteIntoEditor, i holding the three records:
\* editor.replaceSelection(this.formatTemplate(...))
replaceSelection(st, i) ==
    LET text == formatTemplate(st, i.mediaWikiApiResponse, i.wikimediaApiResponse,
                               i.mediaWikiActionApiResponse, i.searchTerm,
                               i.wikipediaTemplateNum)
    IN  IF IsThrow(text)
        THEN Effect([Rejected(i) EXCEPT !.formatTemplateCalls = @ + 1], <<>>, <<>>, <<>>)
        ELSE Effect([i EXCEPT !.pc = "done", !.outcome = "Resolved",
                              !.formatTemplateCalls = @ + 1],
                    <<>>, <<>>, <<text>>)

\* getMediaWikiActionApiResponse resumes with resp, then the if-chain of
\* pasteIntoEditor runs to its end
extractStep(st, i, resp) ==
    LET parsed == parseMediaWikiActionApiResponse(resp, i.mediaWikiApiResponse.id)
        got == [i EXCEPT !.extractResp = resp]
        class == classify(i.mediaWikiApiResponse, i.wikimediaApiResponse)
    IN  IF parsed = TypeError
        THEN Effect(Rejected(got), <<>>, noticeOf("extract", resp), <<>>)
        ELSE IF class = "NotFound"
        THEN Effect([got EXCEPT !.pc = "done", !.outcome = "NotFound",
                                !.mediaWikiActionApiResponse = parsed],
                    <<>>, handleNotFound(i.searchTerm), <<>>)
        ELSE IF class = "Disambiguation"
        THEN Effect([got EXCEPT !.pc = "done", !.outcome = "Disambiguation",
                                !.mediaWikiActionApiResponse = parsed],
                    <<>>, handleDisambiguation(i.searchTerm, i.wikimediaApiResponse.url),
                    <<>>)
        ELSE replaceSelection(st, [got EXCEPT !.mediaWikiActionApiResponse = parsed])

\* the records a call of pasteIntoEditor reads are those of the other call
\* once that call has them, as if they were fields of the plugin object
sharedRecords(mine, other) ==
    [mine EXCEPT
        !.mediaWikiApiResponse =
            IF other.mediaWikiApiResponse # NoRecord THEN other.mediaWikiApiResponse
            ELSE @,
        !.wikimediaApiResponse =
            IF other.wikimediaApiResponse # NoRecord THEN other.wikimediaApiResponse
            ELSE @]

\* the records a call of pasteIntoEditor reads are its own const locals
localsOf(mine, other) == mine

\* a step of the first call takes effect
Commit(e) ==
    /\ inv' = e.inv
    /\ requests' = requests \o e.requests
    /\ notices' = notices \o e.notices
    /\ editor' = editor \o e.editor
    /\ UNCHANGED <<settings, inv2>>

\* a step of the second call takes effect
Commit2(e) ==
    /\ inv2' = e.inv
    /\ requests' = requests \o e.requests
    /\ notices' = notices \o e.notices
    /\ editor' = editor \o e.editor
    /\ UNCHANGED <<settings, inv>>

----------------------------------------------------------------------------
(* the plugin as a state machine: one command invocation                   *)

Init ==
    /\ settings \in LoadedSettings
    /\ inv = NewInvocation
    /\ inv2 = NewInvocation
    /\ requests = <<>>
    /\ notices = <<>>
    /\ editor = <<>>

\* a command or a ribbon icon calls applyTemplateForActiveNote
applyTemplateForActiveNote(activeFile, wikipediaTemplateNum) ==
    /\ inv.pc = "idle"
    /\ Commit(startStep(settings, localsOf(inv, inv2), activeFile, wikipediaTemplateNum))

SearchResponse(resp) ==
    /\ inv.pc = "awaitSearch"
    /\ Commit(searchStep(settings, localsOf(inv, inv2), resp))

SummaryResponse(resp) ==
    /\ inv.pc = "awaitSummary"
    /\ Commit(summaryStep(settings, localsOf(inv, inv2), resp))

ExtractResponse(resp) ==
    /\ inv.pc = "awaitExtract"
    /\ Commit(extractStep(settings, localsOf(inv, inv2), resp))

\* the commands 'Apply Template #1', '#2' and '#3' pass 1, 2 and 3
Next ==
    \/ \E f \in ActiveFiles, n \in TemplateNums : applyTemplateForActiveNote(f, n)
    \/ \E r \in SearchResponses : SearchResponse(r)
    \/ \E r \in SummaryResponses : SummaryResponse(r)
    \/ \E r \in ExtractResponses : ExtractResponse(r)

Spec == Init /\ [][Next]_vars

----------------------------------------------------------------------------
(* properties of one invocation (Spec)                                     *)

AllThreeParsed == inv.pc = "done" /\ inv.mediaWikiActionApiResponse # NoRecord

NotFoundCondition ==
    \/ Contains(inv.wikimediaApiResponse.type, <<"m","i","s","s","i","n","g","t","i","t","l","e">>)
    \/ inv.mediaWikiApiResponse.resultCount = 0

DisambiguationCondition ==
    \/ inv.wikimediaApiResponse.type = <<"d","i","s","a","m","b","i","g","u","a","t","i","o","n">>
    \/ inv.mediaWikiApiResponse.description = DisambiguationDescription

EmptyPageList == [kind |-> "json", hasPages |-> TRUE, pages |-> <<>>]

\* C2: a title search answering an empty page list is parsed into a record
\* with resultCount 0 and the invocation ends in NotFound for the search
\* term, with no formatter and no renderer run.
C2_EmptyPageListIsNotFound ==
    (inv.pc = "done" /\ inv.searchResp = EmptyPageList) =>
        /\ inv.mediaWikiApiResponse # NoRecord
        /\ inv.mediaWikiApiResponse.resultCount = 0
        /\ inv.outcome = "NotFound"
        /\ notices = <<[kind |-> "NotFound", searchTerm |-> inv.searchTerm]>>
        /\ inv.formatTemplateCalls = 0

Sources == {"search", "summary", "extract"}

RespOf(source) ==
    CASE source = "search" -> inv.searchResp
      [] source = "summary" -> inv.summaryResp
      [] source = "extract" -> inv.extractResp

\* C3: a rejected request or a body that is no JSON, on any of the three
\* sources, ends the invocation with the failure notice of that source and
\* of no other, and with neither a NotFound nor a Disambiguation notice, nor
\* an insertion.
C3_SourceUnavailable ==
    \A s \in Sources :
        RespOf(s) = NoticeResponse =>
            /\ inv.pc = "done"
            /\ inv.outcome \notin {"NotFound", "Disambiguation", "Resolved", "NoOp"}
            /\ notices = <<[kind |-> "Failed", source |-> s]>>
            /\ editor = <<>>

C3_Witness ==
    /\ inv.extractResp = NoticeResponse
    /\ inv.mediaWikiApiResponse # NoRecord
    /\ inv.wikimediaApiResponse # NoRecord

\* the last Len(suffix) characters of s are suffix
EndsWith(s, suffix) ==
    /\ Len(s) >= Len(suffix)
    /\ SubSeq(s, Len(s) - Len(suffix) + 1, Len(s)) = suffix

\* C4: the requests of one invocation are issued in the order search, summary,
\* extract; the summary request is issued only once the search response is
\* parsed and asks for the canonical title of the search record, the extract
\* request only once the summary response is parsed and asks for the search
\* record's page id.
C4_RequestOrder ==
    /\ Len(requests) <= 3
    /\ Len(requests) >= 1 =>
        /\ Contains(requests[1], <<"/","w","/","r","e","s","t",".","p","h","p","/","v","1","/","s","e","a","r","c","h","/","t","i","t","l","e","?","q","=">>)
        /\ EndsWith(requests[1], encodeURIComponent(inv.searchTerm) \o <<"&","l","i","m","i","t","=","5">>)
    /\ Len(requests) >= 2 =>
        /\ inv.searchResp # NoRecord
        /\ inv.mediaWikiApiResponse # NoRecord
        /\ Contains(requests[2], <<"/","a","p","i","/","r","e","s","t","_","v","1","/","p","a","g","e","/","s","u","m","m","a","r","y","/">>)
        /\ EndsWith(requests[2],
                    <<"/","p","a","g","e","/","s","u","m","m","a","r","y","/">> \o encodeURIComponent(inv.mediaWikiApiResponse.title))
    /\ Len(requests) >= 3 =>
        /\ inv.summaryResp # NoRecord
        /\ inv.wikimediaApiResponse # NoRecord
        /\ Contains(requests[3], <<"/","w","/","a","p","i",".","p","h","p","?">>)
        /\ EndsWith(requests[3],
                    <<"&","p","a","g","e","i","d","s","=">> \o NatToString(inv.mediaWikiApiResponse.id))
    /\ (inv.pc = "awaitSearch" => Len(requests) = 1)
    /\ (inv.pc = "awaitSummary" => Len(requests) = 2)
    /\ (inv.pc = "awaitExtract" => Len(requests) = 3)

C4_Witness ==
    /\ Len(requests) = 3
    /\ inv.mediaWikiApiResponse.title # inv.searchTerm
    /\ inv.pc = "done"

\* C5: when the summary's type is 'disambiguation' and the NotFound condition
\* does not hold, the outcome is Disambiguation with the summary's url, and
\* formatTemplate is not invoked.
C5_DisambiguationSkipsRenderer ==
    (AllThreeParsed /\ inv.wikimediaApiResponse.type = <<"d","i","s","a","m","b","i","g","u","a","t","i","o","n">>
        /\ ~NotFoundCondition) =>
        /\ inv.outcome = "Disambiguation"
        /\ \E i \in 1..Len(notices) :
              /\ notices[i].kind = "DisambiguationLink"
              /\ notices[i].href = inv.wikimediaApiResponse.url
        /\ inv.formatTemplateCalls = 0
        /\ editor = <<>>

C5_Witness ==
    /\ AllThreeParsed
    /\ inv.wikimediaApiResponse.type = <<"d","i","s","a","m","b","i","g","u","a","t","i","o","n">>
    /\ inv.mediaWikiApiResponse.description # DisambiguationDescription
    /\ inv.outcome = "Disambiguation"

\* the string fields of record rec that hold undefined
UndefinedFields(rec, fields) == {f \in fields : rec[f] = Undefined}

\* does the decoded JSON lack a property its normalizer needs
LacksRequired(source) ==
    /\ RespOf(source) # NoRecord
    /\ RespOf(source).kind = "json"
    /\ CASE source = "search" -> ~RespOf(source).hasPages \/ RespOf(source).pages = <<>>
         [] source = "summary" ->
                ~RespOf(source).hasContentUrls \/ "extract" \notin DOMAIN RespOf(source)
         [] source = "extract" ->
                \/ ~RespOf(source).hasQuery
                \/ \A p \in RespOf(source).pages :
                      \/ p.pageid # NatToString(inv.mediaWikiApiResponse.id)
                      \/ "extract" \notin DOMAIN p

\* C15: a normalizer gives a record with every field set, or it fails: a
\* record held by the invocation has no undefined field (the search record's
\* thumbnailUrl is left to C16), and a response lacking a required property
\* leaves no record and ends the invocation in a failure that is no NotFound,
\* no Disambiguation and no insertion.
C15_NormalizersAllOrNothing ==
    /\ inv.mediaWikiApiResponse # NoRecord
          => UndefinedFields(inv.mediaWikiApiResponse,
                             {"key", "title", "description"}) = {}
    /\ inv.wikimediaApiResponse # NoRecord
          => UndefinedFields(inv.wikimediaApiResponse,
                             {"type", "title", "summary", "description", "url",
                              "thumbnailUrl"}) = {}
    /\ inv.mediaWikiActionApiResponse # NoRecord
          => UndefinedFields(inv.mediaWikiActionApiResponse, {"fullText"}) = {}
    /\ \A s \in Sources :
          LacksRequired(s) =>
              /\ inv.pc = "done" /\ inv.outcome = "Threw"
              /\ inv.formatTemplateCalls = 0

\* C16: the thumbnailUrl of the summary record is thumbnail.source of the
\* summary object and the empty string when it has no thumbnail; the
\* thumbnailUrl of the search record is thumbnail.url of the first page and
\* the empty string when that page has no thumbnail.
C16_ThumbnailOptional ==
    /\ inv.wikimediaApiResponse # NoRecord =>
          inv.wikimediaApiResponse.thumbnailUrl
              = (IF inv.summaryResp.hasThumbnail THEN inv.summaryResp.thumbnailSource
                 ELSE <<>>)
    /\ inv.mediaWikiApiResponse # NoRecord =>
          inv.mediaWikiApiResponse.thumbnailUrl
              = (IF inv.searchResp.pages[1].thumbnail.present
                 THEN inv.searchResp.pages[1].thumbnail.url ELSE <<>>)

\* the text the renderer gives template for the records of invocation i
RenderedOf(st, i, template) ==
    replaceChain(template,
                 thumbnailTemplateFor(st, i.wikimediaApiResponse),
                 i.wikimediaApiResponse,
                 formatWikimediaApiSummary(st, i.wikimediaApiResponse, i.searchTerm),
                 formatMediaWikiActionApiIntroText(st, i.mediaWikiActionApiResponse,
                                                   i.searchTerm),
                 i.mediaWikiApiResponse)

RenderedFrom(template) == RenderedOf(settings, inv, template)

\* C17: the command 'Apply Template #k' inserts the rendering of template
\* slot k and of no other slot, with the one thumbnail template and the one
\* paragraph template of the settings whatever k is.
C17_TemplateSelection ==
    (inv.pc = "done" /\ inv.outcome = "Resolved") =>
        /\ Len(editor) = 1
        /\ editor[1] = RenderedFrom(settings.wikipediaTemplates[inv.wikipediaTemplateNum])
        /\ \A j \in TemplateNums \ {inv.wikipediaTemplateNum} :
              editor[1] # RenderedFrom(settings.wikipediaTemplates[j])

C17_Witness ==
    /\ inv.pc = "done" /\ inv.outcome = "Resolved"
    /\ inv.wikipediaTemplateNum = 3
    /\ Contains(editor[1], <<"w","i","k","i","p","e","d","i","a",":",":"," ","[">>)
    /\ Contains(editor[1], <<"W","i","k","i","p","e","d","i","a"," ","S","y","n","o","p","s","i","s">>)

\* the host every request of the invocation is to be sent to
LanguageHost ==
    <<"h","t","t","p","s",":","/","/">>
    \o (IF settings.language = <<>> \/ settings.language = Undefined
        THEN <<"e","n">> ELSE settings.language)
    \o <<".","w","i","k","i","p","e","d","i","a",".","o","r","g","/">>

\* C18: the three request URLs of an invocation start with
\* 'https://<language>.wikipedia.org/', <language> being the configured
\* prefix, and 'en' when the prefix is empty or unset.
C18_LanguageHost ==
    \A i \in 1..Len(requests) :
        SubSeq(requests[i], 1, Len(LanguageHost)) = LanguageHost

C18_Witness ==
    /\ Len(requests) = 3
    /\ settings.language = Undefined
    /\ \A i \in 1..3 : SubSeq(requests[i], 1, 25) = <<"h","t","t","p","s",":","/","/","e","n",".","w","i","k","i","p","e","d","i","a",".","o","r","g","/">>

\* C21: the note is written at most once in an invocation, and exactly when
\* the invocation ends Resolved; an invocation that ends in NotFound, in
\* Disambiguation, in a failed fetch or parse, or without a note title
\* leaves the note as it was.
C21_EditorOnlyOnResolved ==
    /\ Len(editor) <= 1
    /\ Len(editor) = 1 <=> inv.outcome = "Resolved"
    /\ inv.outcome \in {"NotFound", "Disambiguation", "Threw", "NoOp", "Pending"} =>
            editor = <<>>
    /\ inv.formatTemplateCalls <= 1

C21_Witness ==
    /\ AllThreeParsed
    /\ inv.outcome = "Disambiguation"
    /\ Len(notices) = 2
    /\ editor = <<>>

\* the position of a source in the order of the requests
OrderOf(source) ==
    CASE source = "search" -> 1
      [] source = "summary" -> 2
      [] source = "extract" -> 3

\* the record the normalizer of a source returned to pasteIntoEditor
RecordOf(source) ==
    CASE source = "search" -> inv.mediaWikiApiResponse
      [] source = "summary" -> inv.wikimediaApiResponse
      [] source = "extract" -> inv.mediaWikiActionApiResponse

\* C22: once the fetch of a source has failed, the failure notice of that
\* source is the only notice, its normalizer has returned no record, and the
\* invocation is over: the requests are those up to that source and no
\* later one, neither handleNotFound nor handleDisambiguation has run, and
\* formatTemplate was never called.
C22_FailedFetchAborts ==
    \A s \in Sources :
        RespOf(s) = NoticeResponse =>
            /\ notices = <<FailedNotice(s)>>
            /\ RecordOf(s) = NoRecord
            /\ inv.pc = "done" /\ inv.outcome = "Threw"
            /\ Len(requests) = OrderOf(s)
            /\ \A t \in Sources : OrderOf(t) > OrderOf(s) =>
                    RespOf(t) = NoRecord /\ RecordOf(t) = NoRecord
            /\ inv.formatTemplateCalls = 0

C22_Witness ==
    /\ inv.summaryResp = NoticeResponse
    /\ inv.mediaWikiApiResponse # NoRecord
    /\ Len(requests) = 2
    /\ inv.pc = "done"

\* the part of its URL that tells the service of a source
ServiceOf(source) ==
    CASE source = "search" -> mediaWikiApiUrlBase \o <<"s","e","a","r","c","h","/","t","i","t","l","e","?","q","=">>
      [] source = "summary" -> wikimediaApiUrlBase \o <<"p","a","g","e","/","s","u","m","m","a","r","y","/">>
      [] source = "extract" -> mediaWikiActionApiUrlBase \o <<"?">>

RequestsTo(source) ==
    Cardinality({k \in 1..Len(requests) : Contains(requests[k], ServiceOf(source))})

\* C23: in one invocation each of the three sources is requested at most
\* once, whatever the responses: a source whose response has arrived, failed
\* or not, has exactly one request, and there are no other requests.
C23_NoRetry ==
    /\ \A s \in Sources :
            /\ RequestsTo(s) <= 1
            /\ RespOf(s) # NoRecord => RequestsTo(s) = 1
    /\ Len(requests) = RequestsTo("search") + RequestsTo("summary") + RequestsTo("extract")

C23_Witness ==
    /\ inv.searchResp = NoticeResponse
    /\ inv.pc = "done"
    /\ RequestsTo("search") = 1
    /\ Len(requests) = 1

\* C27: the branch of pasteIntoEditor that tests for a missing search record
\* is never taken: from the summary request on, and whenever the
\* classification is reached, the search record is an object with a title
\* and an id, and every NotFound outcome comes from the test on the summary
\* type or on resultCount.
C27_SearchRecordDefined ==
    /\ (inv.pc \in {"awaitSummary", "awaitExtract"} \/ AllThreeParsed) =>
            /\ inv.mediaWikiApiResponse # NoRecord
            /\ {"title", "id"} \subseteq DOMAIN inv.mediaWikiApiResponse
    /\ inv.outcome = "NotFound" =>
            /\ inv.mediaWikiApiResponse # NoRecord
            /\ inv.wikimediaApiResponse # NoRecord
            /\ NotFoundCondition

C27_Witness ==
    /\ AllThreeParsed
    /\ inv.outcome = "NotFound"
    /\ inv.mediaWikiApiResponse # NoRecord
    /\ inv.mediaWikiApiResponse.resultCount >= 1

----------------------------------------------------------------------------
(* the renderer and the formatters on their own: the invocation starts at  *)
(* the last branch of pasteIntoEditor, with the three records parsed from  *)
(* responses drawn from the sets below                                     *)

TokUnknown == <<"{","{","u","n","k","n","o","w","n","}","}">>

RenderTemplates ==
    {defaultWikipediaTemplateOne,
     <<"{","{","t","i","t","l","e","}","}"," ","{","{","u","r","l","}","}"," ","{","{","s","u","m","m","a","r","y","}","}">>,
     <<"#"," ","{","{","t","i","t","l","e","}","}",","," ","{","{","t","i","t","l","e","}","}"," ","(","{","{","i","d","}","}",";"," ","{","{","k","e","y","}","}",";"," ","{","{","i","d","}","}",")">>,
     <<"{","{","t","h","u","m","b","n","a","i","l","U","r","l","}","}"," ","{","{","t","h","u","m","b","n","a","i","l","T","e","m","p","l","a","t","e","}","}">>,
     <<"{","{","t","h","u","m","b","n","a","i","l","T","e","m","p","l","a","t","e","}","}"," ","{","{","t","h","u","m","b","n","a","i","l","U","r","l","}","}">>,
     <<"{","{","u","n","k","n","o","w","n","}","}"," ","{","{","d","e","s","c","r","i","p","t","i","o","n","}","}"," ","[","[","{","{","t","i","t","l","e","}","}","]","]"," ","{","{","T","i","t","l","e","}","}"," ","{","{","u","n","k","n","o","w","n","}","}">>,
     <<"{","{","i","n","t","r","o","T","e","x","t","}","}","|","{","{","s","u","m","m","a","r","y","}","}","|","{","{","s","u","m","m","a","r","y","}","}">>}

\* the three template slots and the slot the command renders
RenderSlots ==
    {<<<<r, defaultWikipediaTemplateTwo, defaultWikipediaTemplateThree>>, 1>> :
        r \in RenderTemplates}
    \cup {<<DEFAULT_SETTINGS.wikipediaTemplates, n>> : n \in 2..3}

RenderThumbnailTemplates == {DEFAULT_SETTINGS.thumbnailTemplate, <<"[","t","h","u","m","b","]">>}

RenderSettings ==
    {[DEFAULT_SETTINGS EXCEPT !.wikipediaTemplates = slot[1], !.thumbnailTemplate = tt,
                              !.shouldBoldSearchTerm = b, !.useParagraphTemplate = u] :
        slot \in RenderSlots, tt \in RenderThumbnailTemplates, b \in BOOLEAN, u \in BOOLEAN}

RenderSearchTerms == {<<"l","u","d","w","i","g">>, <<"L","u","d","w","i","g">>, <<"M","e","r","c","u","r","y">>, <<"l",".","d">>, <<"f","(","x">>}

RenderTitles == {<<"L","u","d","w","i","g"," ","J","o","s","e","f"," ","W","i","t","t","g","e","n","s","t","e","i","n">>, <<"C","a","$","$","h">>}

RenderSummaries ==
    {<<"L","u","d","w","i","g"," ","w","a","s"," ","a"," ","p","h","i","l","o","s","o","p","h","e","r">>, <<" ","H","e"," ","m","e","t"," ","L","u","d","w","i","g",".","\n","L","u","d","w","i","g"," ","w","r","o","t","e",".","\n">>, <<"B","o","r","n"," ","1","8","8","9",".">>}

RenderExtracts == {ExtractText, <<"P","a","r","a"," ","o","n","e",".","\n","P","a","r","a"," ","t","w","o",".","\n","=","=","H","i","s","t","o","r","y","=","=","\n","i","g","n","o","r","e","d">>}

RenderSummaryResponses ==
    {[kind |-> "json", hasContentUrls |-> TRUE, type |-> <<"s","t","a","n","d","a","r","d">>,
      title |-> ti, extract |-> su,
      description |-> <<"A","u","s","t","r","i","a","n","-","B","r","i","t","i","s","h"," ","p","h","i","l","o","s","o","p","h","e","r">>,
      page |-> <<"h","t","t","p","s",":","/","/","w",".","o","r","g","/","L","W">>,
      hasThumbnail |-> th, thumbnailSource |-> <<"h","t","t","p","s",":","/","/","w",".","o","r","g","/","L","W",".","j","p","g">>] :
        ti \in RenderTitles, su \in RenderSummaries, th \in BOOLEAN}

RenderExtractResponses ==
    {[kind |-> "json", hasQuery |-> TRUE,
      pages |-> {[pageid |-> NatToString(PageLudwig.id), extract |-> x]}] :
        x \in RenderExtracts}

RenderSearchResponse == [kind |-> "json", hasPages |-> TRUE, pages |-> <<PageLudwig>>]

\* pasteIntoEditor where its if-chain has reached the last branch
ReadyToRender(st, searchTerm, wikipediaTemplateNum, summaryResp, extractResp) ==
    [NewInvocation EXCEPT
        !.pc = "render",
        !.searchTerm = searchTerm,
        !.wikipediaTemplateNum = wikipediaTemplateNum,
        !.searchResp = RenderSearchResponse,
        !.summaryResp = summaryResp,
        !.extractResp = extractResp,
        !.mediaWikiApiResponse = parseMediaWikiApiResponse(RenderSearchResponse),
        !.wikimediaApiResponse = parseWikimediaApiResponse(summaryResp),
        !.mediaWikiActionApiResponse =
            parseMediaWikiActionApiResponse(extractResp, PageLudwig.id)]

RenderInit ==
    /\ settings \in RenderSettings
    /\ \E slot \in RenderSlots, term \in RenderSearchTerms,
          sr \in RenderSummaryResponses, er \in RenderExtractResponses :
          /\ settings.wikipediaTemplates = slot[1]
          /\ inv = ReadyToRender(settings, term, slot[2], sr, er)
          /\ requests = <<searchRequestUrl(settings, term),
                          summaryRequestUrl(settings, PageLudwig.title),
                          extractRequestUrl(settings, PageLudwig.id)>>
    /\ inv2 = NewInvocation
    /\ notices = <<>>
    /\ editor = <<>>

\* the last branch of pasteIntoEditor
Render ==
    /\ inv.pc = "render"
    /\ Commit(replaceSelection(settings, localsOf(inv, inv2)))

RenderNext == Render

RenderSpec == RenderInit /\ [][RenderNext]_vars

----------------------------------------------------------------------------
(* properties of the renderer (RenderSpec)                                 *)

Rendered == inv.pc = "done" /\ inv.outcome = "Resolved" /\ Len(editor) = 1

\* the text inserted into the note
Output == editor[1]

\* the template the command selected
ChosenTemplate == settings.wikipediaTemplates[inv.wikipediaTemplateNum]

SummaryRec == inv.wikimediaApiResponse

SearchRec == inv.mediaWikiApiResponse

\* C6: the rendered text takes title, url, description and thumbnailUrl from
\* the summary record, id and key from the search record and introText from
\* the extract: for each of these placeholders in the template the final text
\* contains the value (the canonical title, the canonical URL, the possibly
\* emphasized summary, ...).
C6_RenderedFromMergedRecords ==
    Rendered =>
        /\ Contains(ChosenTemplate, TokTitle) => Contains(Output, SummaryRec.title)
        /\ Contains(ChosenTemplate, TokUrl) => Contains(Output, SummaryRec.url)
        /\ Contains(ChosenTemplate, TokDescription)
              => Contains(Output, SummaryRec.description)
        /\ Contains(ChosenTemplate, TokThumbnailUrl)
              => Contains(Output, SummaryRec.thumbnailUrl)
        /\ Contains(ChosenTemplate, TokId) => Contains(Output, NatToString(SearchRec.id))
        /\ Contains(ChosenTemplate, TokKey) => Contains(Output, SearchRec.key)
        /\ Contains(ChosenTemplate, TokSummary)
              => Contains(Output, formatWikimediaApiSummary(settings, SummaryRec,
                                                            inv.searchTerm))
        /\ Contains(ChosenTemplate, TokIntroText)
              => Contains(Output,
                          formatMediaWikiActionApiIntroText(
                              settings, inv.mediaWikiActionApiResponse, inv.searchTerm))

\* text with the first occurrence of token given the value, character by character
Substituted(text, token, value) ==
    IF IndexOf(text, token) = 0 THEN text
    ELSE SubSeq(text, 1, IndexOf(text, token) - 1) \o value
         \o SubSeq(text, IndexOf(text, token) + Len(token), Len(text))

\* C7: for a template holding {{thumbnailTemplate}}: with an empty thumbnailUrl
\* the output holds nothing of the thumbnail sub-template; with a non-empty
\* one it holds the sub-template with its {{thumbnailUrl}} replaced by the
\* URL, also when the main template holds {{thumbnailUrl}} itself.
C7_ThumbnailConditional ==
    (Rendered /\ Contains(ChosenTemplate, TokThumbnailTemplate)) =>
        IF SummaryRec.thumbnailUrl = <<>>
        THEN /\ ~Contains(Output, settings.thumbnailTemplate)
             /\ ~Contains(Output, TokThumbnailTemplate)
        ELSE Contains(Output, Substituted(settings.thumbnailTemplate, TokThumbnailUrl,
                                          SummaryRec.thumbnailUrl))

\* occurrences of token the renderer finds: those of the template and, for
\* {{thumbnailUrl}}, those of an inserted thumbnail sub-template
Occurrences(token) ==
    Count(ChosenTemplate, token)
    + (IF /\ token = TokThumbnailUrl
          /\ Contains(ChosenTemplate, TokThumbnailTemplate)
          /\ SummaryRec.thumbnailUrl # <<>>
       THEN Count(settings.thumbnailTemplate, TokThumbnailUrl) ELSE 0)

\* C8: each recognized token is replaced once at most, and it is the first
\* occurrence that is replaced: of n occurrences n - 1 stay in the output as
\* literal token text, and the text up to the first {{title}} is followed by
\* the title.
C8_FirstOccurrenceOnly ==
    Rendered =>
        /\ \A k \in 1..Len(RecognizedTokens) :
              LET token == RecognizedTokens[k]
              IN  /\ Count(Output, token) >= Count(ChosenTemplate, token) - 1
                  /\ Occurrences(token) >= 1
                        => Count(Output, token) = Occurrences(token) - 1
        /\ LET first == IndexOf(ChosenTemplate, TokTitle)
               value == GetSubstitution(SummaryRec.title, TokTitle, <<>>)
           IN  (first > 0 /\ ~Contains(SubSeq(ChosenTemplate, 1, first - 1), <<"{","{">>))
                  => SubSeq(Output, 1, first - 1 + Len(value))
                        = SubSeq(ChosenTemplate, 1, first - 1) \o value

C8_Witness ==
    /\ Rendered
    /\ Count(ChosenTemplate, TokTitle) = 2 /\ Count(Output, TokTitle) = 1
    /\ Count(ChosenTemplate, TokId) = 2 /\ Count(Output, TokId) = 1

\* the literal pieces of text between its recognized tokens, in order
RECURSIVE Literals(_)
Literals(text) ==
    LET found == {k \in 1..Len(RecognizedTokens) : Contains(text, RecognizedTokens[k])}
        first == CHOOSE k \in found :
                    \A j \in found : IndexOf(text, RecognizedTokens[k])
                                        <= IndexOf(text, RecognizedTokens[j])
        at == IndexOf(text, RecognizedTokens[first])
    IN  IF found = {} THEN <<text>>
        ELSE <<SubSeq(text, 1, at - 1)>>
             \o Literals(SubSeq(text, at + Len(RecognizedTokens[first]), Len(text)))

\* the pieces occur in text one after another
RECURSIVE InOrder(_, _)
InOrder(text, pieces) ==
    IF pieces = <<>> THEN TRUE
    ELSE IF Head(pieces) = <<>> THEN InOrder(text, Tail(pieces))
    ELSE /\ Contains(text, Head(pieces))
         /\ InOrder(SubSeq(text, IndexOf(text, Head(pieces)) + Len(Head(pieces)),
                           Len(text)),
                    Tail(pieces))

\* C9: every unrecognized token and every other literal piece of the template
\* is in the output as written, in the template's order, and the rendering
\* fails for no template: it fails only where the search term is no regular
\* expression and is to be emphasized.
C9_UnrecognizedTokensUntouched ==
    /\ Rendered =>
        /\ Count(Output, TokUnknown) = Count(ChosenTemplate, TokUnknown)
        /\ Count(Output, <<"{","{","T","i","t","l","e","}","}">>) = Count(ChosenTemplate, <<"{","{","T","i","t","l","e","}","}">>)
        /\ InOrder(Output, Literals(ChosenTemplate))
    /\ (inv.pc = "done" /\ inv.outcome # "Resolved") =>
        /\ settings.shouldBoldSearchTerm
        /\ ~RegExpCompiles(inv.searchTerm)

C9_Witness == Rendered /\ Count(Output, TokUnknown) = 2

\* is every character of s a letter
Alphabetic(s) == \A i \in 1..Len(s) : ToLower(s[i]) \in {LowerCase[k] : k \in 1..26}

\* s in lower case
Lowered(s) == [i \in 1..Len(s) |-> ToLower(s[i])]

\* C10: with the bold setting on, a summary in which the search term does not
\* occur is returned as flattened; otherwise the first occurrence, letter case
\* ignored, is wrapped in '**' with the matched text kept as the summary
\* writes it ('Ludwig was a philosopher', 'ludwig': '**Ludwig**' once).
C10_EmphasisKeepsMatchedText ==
    (inv.pc = "done" /\ settings.shouldBoldSearchTerm /\ Alphabetic(inv.searchTerm)) =>
        LET flat == ReplaceNewlines(Trim(SummaryRec.summary))
            at == IndexOf(Lowered(flat), Lowered(inv.searchTerm))
            matched == SubSeq(flat, at, at + Len(inv.searchTerm) - 1)
            out == formatWikimediaApiSummary(settings, SummaryRec, inv.searchTerm)
        IN  IF at = 0 THEN out = flat
            ELSE /\ out = SubSeq(flat, 1, at - 1) \o <<"*","*">> \o matched \o <<"*","*">>
                          \o SubSeq(flat, at + Len(inv.searchTerm), Len(flat))
                 /\ (SummaryRec.summary = <<"L","u","d","w","i","g"," ","w","a","s"," ","a"," ","p","h","i","l","o","s","o","p","h","e","r">>
                        => Count(out, <<"*","*","L","u","d","w","i","g","*","*">>) = 1)

\* C11: the search term is emphasized as a literal substring: with the bold
\* setting on, no term makes the rendering fail, a summary in which the term
\* does not occur (letter case ignored) is returned as flattened, and
\* otherwise the span wrapped in '**' is the first occurrence of the term.
C11_LiteralSearchTerm ==
    (inv.pc = "done" /\ settings.shouldBoldSearchTerm) =>
        LET flat == ReplaceNewlines(Trim(SummaryRec.summary))
            at == IndexOf(Lowered(flat), Lowered(inv.searchTerm))
            out == formatWikimediaApiSummary(settings, SummaryRec, inv.searchTerm)
        IN  /\ inv.outcome = "Resolved"
            /\ ~IsThrow(out)
            /\ IF at = 0 THEN out = flat
               ELSE Lowered(out)
                       = Lowered(SubSeq(flat, 1, at - 1) \o Emphasized(inv.searchTerm)
                                 \o SubSeq(flat, at + Len(inv.searchTerm), Len(flat)))

----------------------------------------------------------------------------
(* the two text formatters over every short text: the invocation is at the *)
(* last branch of pasteIntoEditor with the summary's extract and the       *)
(* article's full text both the text drawn                                 *)

FormatAlphabet == {"a", " ", "\n", "=", ">"}

\* the longest text drawn from the alphabet
MaxTextLen == 4

ParagraphExample == <<"P","a","r","a"," ","o","n","e",".","\n","P","a","r","a"," ","t","w","o",".","\n","=","=","H","i","s","t","o","r","y","=","=","\n","i","g","n","o","r","e","d">>

FormatTexts ==
    UNION {[1..n -> FormatAlphabet] : n \in 0..MaxTextLen}
    \cup {ParagraphExample, ExtractText,
          <<"C","o","s","t"," ","$","$","5",".","\n","P","a","r","a"," ","t","w","o",".","\n","=","=","H","i","s","t","o","r","y","=","=","\n","i","g","n","o","r","e","d">>,
          <<"\n"," ","B","o","r","n"," ","1","8","8","9",".","\n","\n","D","i","e","d"," ","1","9","5","1","."," ","\n">>}

FormatTemplate == <<"{","{","s","u","m","m","a","r","y","}","}","|","{","{","i","n","t","r","o","T","e","x","t","}","}">>

\* a paragraph template whose own text holds the search term of FormatInit
FormatParagraphTemplate == <<"a",":"," ","{","{","p","a","r","a","g","r","a","p","h","T","e","x","t","}","}","\n">>

FormatSettings ==
    {[DEFAULT_SETTINGS EXCEPT
        !.wikipediaTemplates = <<FormatTemplate, defaultWikipediaTemplateTwo,
                                 defaultWikipediaTemplateThree>>,
        !.shouldBoldSearchTerm = b, !.useParagraphTemplate = u] :
        b \in BOOLEAN, u \in BOOLEAN}
    \cup {[DEFAULT_SETTINGS EXCEPT
              !.wikipediaTemplates = <<FormatTemplate, defaultWikipediaTemplateTwo,
                                       defaultWikipediaTemplateThree>>,
              !.shouldBoldSearchTerm = TRUE, !.useParagraphTemplate = TRUE,
              !.paragraphTemplate = FormatParagraphTemplate]}

FormatSearchTerm == <<"a">>

FormatSummaryResponse(text) ==
    [kind |-> "json", hasContentUrls |-> TRUE, type |-> <<"s","t","a","n","d","a","r","d">>,
     title |-> <<"A">>, extract |-> text,
     description |-> <<"f","i","r","s","t"," ","l","e","t","t","e","r">>,
     page |-> <<"h","t","t","p","s",":","/","/","w",".","o","r","g","/","A">>,
     hasThumbnail |-> FALSE, thumbnailSource |-> <<>>]

FormatExtractResponse(text) ==
    [kind |-> "json", hasQuery |-> TRUE,
     pages |-> {[pageid |-> NatToString(PageLudwig.id), extract |-> text]}]

FormatInit ==
    /\ settings \in FormatSettings
    /\ \E text \in FormatTexts :
          inv = ReadyToRender(settings, FormatSearchTerm, 1,
                              FormatSummaryResponse(text), FormatExtractResponse(text))
    /\ requests = <<searchRequestUrl(settings, FormatSearchTerm),
                    summaryRequestUrl(settings, PageLudwig.title),
                    extractRequestUrl(settings, PageLudwig.id)>>
    /\ inv2 = NewInvocation
    /\ notices = <<>>
    /\ editor = <<>>

FormatSpec == FormatInit /\ [][RenderNext]_vars

----------------------------------------------------------------------------
(* properties of the formatters (FormatSpec)                               *)

\* every newline of s replaced by one space
NewlinesAsSpaces(s) == [i \in 1..Len(s) |-> IF s[i] = "\n" THEN " " ELSE s[i]]

\* C12: the flattened summary holds no newline and is the summary with every
\* newline replaced by one space and then trimmed, although the code trims
\* before it replaces.
C12_SummaryFlattened ==
    inv.pc = "done" =>
        LET out == formatWikimediaApiSummary(settings, SummaryRec, inv.searchTerm)
        IN  /\ Count(out, <<"\n">>) = 0
            /\ ~settings.shouldBoldSearchTerm
                  => out = Trim(NewlinesAsSpaces(SummaryRec.summary))
            /\ (Rendered /\ ~Contains(out, <<"$">>))
                  => SubSeq(Output, 1, Len(out) + 1) = out \o <<"|">>

C12_Witness ==
    /\ Rendered
    /\ ~settings.shouldBoldSearchTerm
    /\ Count(Trim(SummaryRec.summary), <<"\n">>) >= 2
    /\ Trim(SummaryRec.summary) # SummaryRec.summary

\* the text before the first '==' of text
BeforeFirstMarker(text) ==
    IF Contains(text, <<"=","=">>) THEN SubSeq(text, 1, IndexOf(text, <<"=","=">>) - 1) ELSE text

\* the paragraphs of the intro, each put in the place of {{paragraphText}}
ParagraphsTemplated(st, text) ==
    LET paragraphs == Split(Trim(BeforeFirstMarker(text)), <<"\n">>)
    IN  Trim(Join([i \in 1..Len(paragraphs) |->
                      Substituted(st.paragraphTemplate, TokParagraphText, paragraphs[i])]))

\* text without its last two characters when it ends in '>'
ArtifactDropped(text) ==
    IF text # <<>> /\ text[Len(text)] = ">" THEN SubSeq(text, 1, Len(text) - 2) ELSE text

\* C13: with the paragraph template enabled (and no emphasis) the intro text
\* is made of the text before the first '==' only: trimmed, split on
\* newlines, each paragraph put in the place of {{paragraphText}}, the
\* results concatenated and trimmed; the example gives its two paragraphs each
\* prefixed with '> ', and nothing of '==History==' or after it.
C13_ParagraphTemplating ==
    (inv.pc = "done" /\ settings.useParagraphTemplate /\ ~settings.shouldBoldSearchTerm) =>
        LET text == inv.mediaWikiActionApiResponse.fullText
            out == formatMediaWikiActionApiIntroText(
                       settings, inv.mediaWikiActionApiResponse, inv.searchTerm)
        IN  /\ out = ArtifactDropped(ParagraphsTemplated(settings, text))
            /\ ~Contains(out, <<"=","=">>)
            /\ (text = ParagraphExample
                    /\ settings.paragraphTemplate = DEFAULT_SETTINGS.paragraphTemplate)
                  => out = <<">"," ","P","a","r","a"," ","o","n","e",".","\n",">","\n",">"," ","P","a","r","a"," ","t","w","o",".">>

\* C14: the intro text is the assembled and emphasized text without its last
\* two characters if that text ends in '>', and that text as it is otherwise,
\* with the paragraph template enabled or not; the rule is applied once.
C14_TrailingArtifactOnce ==
    inv.pc = "done" =>
        LET pre == emphasizedIntroText(settings, inv.mediaWikiActionApiResponse,
                                       inv.searchTerm)
            out == formatMediaWikiActionApiIntroText(
                       settings, inv.mediaWikiActionApiResponse, inv.searchTerm)
        IN  /\ ~IsThrow(pre)
            /\ IF pre # <<>> /\ pre[Len(pre)] = ">"
               THEN /\ Len(out) = (IF Len(pre) >= 2 THEN Len(pre) - 2 ELSE 0)
                    /\ out = SubSeq(pre, 1, Len(out))
               ELSE out = pre

C14_Witness ==
    /\ Rendered
    /\ ~settings.useParagraphTemplate
    /\ LET pre == emphasizedIntroText(settings, inv.mediaWikiActionApiResponse,
                                      inv.searchTerm)
           out == formatMediaWikiActionApiIntroText(
                      settings, inv.mediaWikiActionApiResponse, inv.searchTerm)
       IN  /\ pre # <<>> /\ pre[Len(pre)] = ">"
           /\ out # <<>> /\ out[Len(out)] = ">"

----------------------------------------------------------------------------
(* two overlapping invocations: the second command is run once the first   *)
(* call has started, and the six fetches complete in any order             *)

ConcurrentSettings == {DEFAULT_SETTINGS, [DEFAULT_SETTINGS EXCEPT !.language = <<"d","e">>]}

ConcurrentFiles == {[present |-> TRUE, basename |-> b] : b \in {<<"l","u","d","w","i","g">>, <<"M","e","r","c","u","r","y">>}}

ConcurrentTemplateNums == 1..2

ConcurrentSearchResponses ==
    {NoticeResponse,
     [kind |-> "json", hasPages |-> TRUE, pages |-> <<PageLudwig>>],
     [kind |-> "json", hasPages |-> TRUE, pages |-> <<PageMercury>>]}

ConcurrentSummaryResponses ==
    {SummaryJson(<<"s","t","a","n","d","a","r","d">>, TRUE, TRUE), SummaryJson(<<"d","i","s","a","m","b","i","g","u","a","t","i","o","n">>, FALSE, TRUE)}

ConcurrentExtractResponses ==
    {[kind |-> "json", hasQuery |-> TRUE,
      pages |-> {[pageid |-> NatToString(p.id), extract |-> ExtractText] :
                    p \in {PageLudwig, PageMercury}}]}

ConcurrentInit ==
    /\ settings \in ConcurrentSettings
    /\ inv = NewInvocation
    /\ inv2 = NewInvocation
    /\ requests = <<>>
    /\ notices = <<>>
    /\ editor = <<>>

\* a second command is run while the first call is under way or over
applyTemplateForActiveNote2(activeFile, wikipediaTemplateNum) ==
    /\ inv.pc # "idle"
    /\ inv2.pc = "idle"
    /\ Commit2(startStep(settings, localsOf(inv2, inv), activeFile, wikipediaTemplateNum))

SearchResponse2(resp) ==
    /\ inv2.pc = "awaitSearch"
    /\ Commit2(searchStep(settings, localsOf(inv2, inv), resp))

SummaryResponse2(resp) ==
    /\ inv2.pc = "awaitSummary"
    /\ Commit2(summaryStep(settings, localsOf(inv2, inv), resp))

ExtractResponse2(resp) ==
    /\ inv2.pc = "awaitExtract"
    /\ Commit2(extractStep(settings, localsOf(inv2, inv), resp))

ConcurrentNext ==
    \/ \E f \in ConcurrentFiles, n \in ConcurrentTemplateNums :
          applyTemplateForActiveNote(f, n)
    \/ \E r \in ConcurrentSearchResponses : SearchResponse(r)
    \/ \E r \in ConcurrentSummaryResponses : SummaryResponse(r)
    \/ \E r \in ConcurrentExtractResponses : ExtractResponse(r)
    \/ \E f \in ConcurrentFiles, n \in ConcurrentTemplateNums :
          applyTemplateForActiveNote2(f, n)
    \/ \E r \in ConcurrentSearchResponses : SearchResponse2(r)
    \/ \E r \in ConcurrentSummaryResponses : SummaryResponse2(r)
    \/ \E r \in ConcurrentExtractResponses : ExtractResponse2(r)

ConcurrentSpec == ConcurrentInit /\ [][ConcurrentNext]_vars

----------------------------------------------------------------------------
(* properties of two overlapping invocations (ConcurrentSpec)              *)

\* effect e followed by the effect next of the following step
Then(e, next) ==
    Effect(next.inv, e.requests \o next.requests, e.notices \o next.notices,
           e.editor \o next.editor)

\* what a call does when it runs on its own: the steps it has taken so far,
\* computed from its search term, its template number, the responses it has
\* received and the settings
Alone(st, i) ==
    LET started ==
            startStep(st, NewInvocation, [present |-> TRUE, basename |-> i.searchTerm],
                      i.wikipediaTemplateNum)
        searched ==
            IF i.searchResp = NoRecord THEN started
            ELSE Then(started, searchStep(st, started.inv, i.searchResp))
        summarized ==
            IF i.summaryResp = NoRecord THEN searched
            ELSE Then(searched, summaryStep(st, searched.inv, i.summaryResp))
    IN  IF i.pc = "idle" THEN Effect(NewInvocation, <<>>, <<>>, <<>>)
        ELSE IF i.extractResp = NoRecord THEN summarized
        ELSE Then(summarized, extractStep(st, summarized.inv, i.extractResp))

\* s is made of the elements of a and of b, each in its own order
RECURSIVE Interleaves(_, _, _)
Interleaves(s, a, b) ==
    IF s = <<>> THEN a = <<>> /\ b = <<>>
    ELSE \/ a # <<>> /\ Head(a) = Head(s) /\ Interleaves(Tail(s), Tail(a), b)
         \/ b # <<>> /\ Head(b) = Head(s) /\ Interleaves(Tail(s), a, Tail(b))

\* C19: whatever the order in which the fetches of two overlapping calls
\* complete, the records, the classification and the outcome of each call are
\* those the call has when it runs alone with its own search term and
\* responses, and the requests, the notices and the insertions are those of
\* the two calls run alone, interleaved.
C19_InvocationsIndependent ==
    /\ inv = Alone(settings, inv).inv
    /\ inv2 = Alone(settings, inv2).inv
    /\ Interleaves(requests, Alone(settings, inv).requests, Alone(settings, inv2).requests)
    /\ Interleaves(notices, Alone(settings, inv).notices, Alone(settings, inv2).notices)
    /\ Interleaves(editor, Alone(settings, inv).editor, Alone(settings, inv2).editor)

C19_Witness ==
    /\ inv.pc = "done" /\ inv.outcome = "Resolved"
    /\ inv2.pc = "done" /\ inv2.outcome = "Resolved"
    /\ inv.searchTerm # inv2.searchTerm
    /\ Len(editor) = 2
    /\ editor[1] = Alone(settings, inv2).editor[1]
    /\ editor[2] = Alone(settings, inv).editor[1]
    /\ editor[1] # editor[2]
    /\ requests[2] = Alone(settings, inv2).requests[1]

----------------------------------------------------------------------------
(* the settings tab: the onChange handlers of its eight controls, each     *)
(* assigning one field of the settings object the invocation reads.  The   *)
(* settings are followed until the invocation has ended.                   *)

EditLanguages == {<<"e","n">>, <<"d","e">>}

EditedTemplate == <<"#"," ","{","{","t","i","t","l","e","}","}","\n","{","{","i","n","t","r","o","T","e","x","t","}","}","\n">>

EditedThumbnailTemplate == <<"[","t","h","u","m","b","]","(","{","{","t","h","u","m","b","n","a","i","l","U","r","l","}","}",")">>

EditedParagraphTemplate == <<"{","{","p","a","r","a","g","r","a","p","h","T","e","x","t","}","}","\n","\n">>

\* 'Wikipedia language prefix'
setLanguage(value) ==
    /\ inv.pc # "done"
    /\ settings' = [settings EXCEPT !.language = value]
    /\ UNCHANGED <<inv, inv2, requests, notices, editor>>

\* 'Bold search term?'
setShouldBoldSearchTerm(value) ==
    /\ inv.pc # "done"
    /\ settings' = [settings EXCEPT !.shouldBoldSearchTerm = value]
    /\ UNCHANGED <<inv, inv2, requests, notices, editor>>

\* 'Wikipedia template #1', '#2' and '#3'
setWikipediaTemplate(k, value) ==
    /\ inv.pc # "done"
    /\ settings' = [settings EXCEPT !.wikipediaTemplates[k] = value]
    /\ UNCHANGED <<inv, inv2, requests, notices, editor>>

\* 'Thumbnail template'
setThumbnailTemplate(value) ==
    /\ inv.pc # "done"
    /\ settings' = [settings EXCEPT !.thumbnailTemplate = value]
    /\ UNCHANGED <<inv, inv2, requests, notices, editor>>

\* 'Use paragraph template?'
setUseParagraphTemplate(value) ==
    /\ inv.pc # "done"
    /\ settings' = [settings EXCEPT !.useParagraphTemplate = value]
    /\ UNCHANGED <<inv, inv2, requests, notices, editor>>

\* 'Paragraph template'
setParagraphTemplate(value) ==
    /\ inv.pc # "done"
    /\ settings' = [settings EXCEPT !.paragraphTemplate = value]
    /\ UNCHANGED <<inv, inv2, requests, notices, editor>>

EditFiles == {[present |-> TRUE, basename |-> <<"l","u","d","w","i","g">>]}

EditSearchResponses == {[kind |-> "json", hasPages |-> TRUE, pages |-> <<PageLudwig>>]}

EditSummaryResponses == {SummaryJson(<<"s","t","a","n","d","a","r","d">>, TRUE, TRUE)}

EditExtractResponses ==
    {[kind |-> "json", hasQuery |-> TRUE,
      pages |-> {[pageid |-> NatToString(PageLudwig.id), extract |-> ExtractText]}]}

EditInit ==
    /\ settings = DEFAULT_SETTINGS
    /\ inv = NewInvocation
    /\ inv2 = NewInvocation
    /\ requests = <<>>
    /\ notices = <<>>
    /\ editor = <<>>

EditNext ==
    \/ \E f \in EditFiles, n \in TemplateNums : applyTemplateForActiveNote(f, n)
    \/ \E r \in EditSearchResponses : SearchResponse(r)
    \/ \E r \in EditSummaryResponses : SummaryResponse(r)
    \/ \E r \in EditExtractResponses : ExtractResponse(r)
    \/ \E v \in EditLanguages : setLanguage(v)
    \/ \E v \in BOOLEAN : setShouldBoldSearchTerm(v)
    \/ \E k \in TemplateNums : setWikipediaTemplate(k, EditedTemplate)
    \/ setThumbnailTemplate(EditedThumbnailTemplate)
    \/ \E v \in BOOLEAN : setUseParagraphTemplate(v)
    \/ setParagraphTemplate(EditedParagraphTemplate)

EditSpec == EditInit /\ [][EditNext]_vars

----------------------------------------------------------------------------
(* properties of an invocation under settings edits (EditSpec)             *)

\* C20: every step of an invocation reads the settings as they are when the
\* step runs: a request is sent to the host of the language prefix the
\* settings hold at that moment, and the text inserted is rendered from the
\* templates and the toggles the settings hold after the last fetch.
C20_SettingsReadAtEachStep ==
    [][/\ Len(requests') = Len(requests) + 1
            => SubSeq(requests'[Len(requests')], 1, Len(LanguageHost)) = LanguageHost
       /\ Len(editor') = Len(editor) + 1
            => editor'[Len(editor')]
                  = RenderedOf(settings, inv',
                               settings.wikipediaTemplates[inv.wikipediaTemplateNum])
      ]_vars

C20_Witness ==
    /\ inv.pc = "done" /\ inv.outcome = "Resolved"
    /\ SubSeq(requests[1], 1, 11) = <<"h","t","t","p","s",":","/","/","e","n",".">>
    /\ SubSeq(requests[2], 1, 11) = <<"h","t","t","p","s",":","/","/","d","e",".">>
    /\ SubSeq(requests[3], 1, 11) = <<"h","t","t","p","s",":","/","/","e","n",".">>
    /\ settings.wikipediaTemplates[inv.wikipediaTemplateNum] = EditedTemplate
    /\ editor[1] = RenderedFrom(EditedTemplate)

\* C24: with emphasis and the paragraph template both on, the search term is
\* emphasized once, in the whole text assembled from the templated
\* paragraphs: the text before the trailing-artifact rule is the assembled
\* text with its first occurrence of the term (in any case) replaced by the
\* emphasized term, wherever that occurrence lies, and the assembled text
\* itself when the term does not occur; no second occurrence is wrapped.
C24_EmphasisOnAssembledText ==
    (inv.pc = "done" /\ settings.shouldBoldSearchTerm /\ settings.useParagraphTemplate) =>
        LET term == inv.searchTerm
            assembled == emphasizedIntroText(
                             [settings EXCEPT !.shouldBoldSearchTerm = FALSE],
                             inv.mediaWikiActionApiResponse, term)
            pre == emphasizedIntroText(settings, inv.mediaWikiActionApiResponse, term)
            at == IndexOf(Lowered(assembled), Lowered(term))
        IN  /\ IF at = 0 THEN pre = assembled
               ELSE pre = SubSeq(assembled, 1, at - 1) \o Emphasized(term)
                          \o SubSeq(assembled, at + Len(term), Len(assembled))
            /\ Count(pre, <<"*","*">>) <= 2
            /\ Count(pre, Emphasized(term)) <= 1

C24_Witness ==
    /\ Rendered
    /\ settings.shouldBoldSearchTerm /\ settings.useParagraphTemplate
    /\ settings.paragraphTemplate = FormatParagraphTemplate
    /\ Len(Split(Trim(BeforeFirstMarker(inv.mediaWikiActionApiResponse.fullText)),
                  <<"\n">>)) >= 2
    /\ Count(inv.mediaWikiActionApiResponse.fullText, inv.searchTerm) >= 2
    /\ LET pre == emphasizedIntroText(settings, inv.mediaWikiActionApiResponse,
                                       inv.searchTerm)
       IN  /\ SubSeq(pre, 1, 6) = Emphasized(inv.searchTerm) \o <<":">>
           /\ Count(pre, <<"*","*">>) = 2

\* search terms: that of FormatInit, and terms no regular expression takes
\* as they are written
AnySearchTerms == {FormatSearchTerm, <<"P","a","r","a">>, <<"l",".","d">>, <<"f","(","x">>}

\* C25: with the emphasis setting off the summary is exactly the flattened
\* summary and the intro text is exactly the assembled text after the
\* trailing-artifact rule, neither holds an emphasis marker the article did
\* not hold, and both are the same for every search term.
C25_NoEmphasisWhenOff ==
    (inv.pc = "done" /\ ~settings.shouldBoldSearchTerm) =>
        LET text == inv.mediaWikiActionApiResponse.fullText
            intro == Trim(BeforeFirstMarker(text))
            assembled ==
                IF settings.useParagraphTemplate
                THEN Trim(Join(applyParagraphTemplate(settings, Split(intro, <<"\n">>))))
                ELSE intro
        IN  \A t \in AnySearchTerms \cup {inv.searchTerm} :
                LET outS == formatWikimediaApiSummary(settings, SummaryRec, t)
                    outI == formatMediaWikiActionApiIntroText(
                                settings, inv.mediaWikiActionApiResponse, t)
                IN  /\ outS = Trim(NewlinesAsSpaces(SummaryRec.summary))
                    /\ outI = ArtifactDropped(assembled)
                    /\ Count(outS, <<"*","*">>) = Count(SummaryRec.summary, <<"*","*">>)
                    /\ Count(outI, <<"*","*">>) = Count(assembled, <<"*","*">>)
                    /\ inv.outcome = "Resolved"

C25_Witness ==
    /\ Rendered
    /\ ~settings.shouldBoldSearchTerm
    /\ settings.useParagraphTemplate
    /\ Contains(Trim(SummaryRec.summary), inv.searchTerm)
    /\ Contains(Trim(BeforeFirstMarker(inv.mediaWikiActionApiResponse.fullText)),
                inv.searchTerm)
    /\ ~Contains(Output, <<"*","*">>)

----------------------------------------------------------------------------
(* the renderer on templates and values that hold token text themselves:   *)
(* a thumbnail sub-template with {{description}}, a summary that quotes     *)
(* {{id}} or {{title}}                                                      *)

ChainTemplates ==
    {defaultWikipediaTemplateOne,
     <<"{","{","t","h","u","m","b","n","a","i","l","T","e","m","p","l","a","t","e","}","}"," ","{","{","d","e","s","c","r","i","p","t","i","o","n","}","}">>,
     <<"{","{","d","e","s","c","r","i","p","t","i","o","n","}","}"," ","{","{","t","h","u","m","b","n","a","i","l","T","e","m","p","l","a","t","e","}","}">>,
     <<"{","{","s","u","m","m","a","r","y","}","}"," ","(","{","{","i","d","}","}",")"," ","{","{","k","e","y","}","}">>,
     <<"{","{","i","d","}","}",":"," ","{","{","s","u","m","m","a","r","y","}","}">>,
     <<"{","{","t","h","u","m","b","n","a","i","l","U","r","l","}","}"," ","{","{","t","h","u","m","b","n","a","i","l","T","e","m","p","l","a","t","e","}","}">>,
     <<"{","{","t","i","t","l","e","}","}"," ","{","{","s","u","m","m","a","r","y","}","}"," ","{","{","t","i","t","l","e","}","}">>}

ChainThumbnailTemplates ==
    {DEFAULT_SETTINGS.thumbnailTemplate, <<"[","{","{","d","e","s","c","r","i","p","t","i","o","n","}","}","]","(","{","{","t","h","u","m","b","n","a","i","l","U","r","l","}","}",")">>}

ChainSettings ==
    {[DEFAULT_SETTINGS EXCEPT
        !.wikipediaTemplates = <<r, defaultWikipediaTemplateTwo,
                                 defaultWikipediaTemplateThree>>,
        !.thumbnailTemplate = tt,
        !.shouldBoldSearchTerm = b] :
        r \in ChainTemplates, tt \in ChainThumbnailTemplates, b \in BOOLEAN}

ChainSummaries ==
    {<<"L","u","d","w","i","g"," ","w","a","s"," ","a"," ","p","h","i","l","o","s","o","p","h","e","r">>, <<"S","e","e"," ","{","{","i","d","}","}"," ","o","f"," ","{","{","t","i","t","l","e","}","}",".">>, <<"A","b","o","u","t"," ","{","{","t","i","t","l","e","}","}",".">>}

ChainSummaryResponses ==
    {[kind |-> "json", hasContentUrls |-> TRUE, type |-> <<"s","t","a","n","d","a","r","d">>,
      title |-> ti, extract |-> su,
      description |-> <<"A","u","s","t","r","i","a","n","-","B","r","i","t","i","s","h"," ","p","h","i","l","o","s","o","p","h","e","r">>,
      page |-> <<"h","t","t","p","s",":","/","/","w",".","o","r","g","/","L","W">>,
      hasThumbnail |-> th, thumbnailSource |-> <<"h","t","t","p","s",":","/","/","w",".","o","r","g","/","L","W",".","j","p","g">>] :
        ti \in RenderTitles, su \in ChainSummaries, th \in BOOLEAN}

ChainExtractResponse ==
    [kind |-> "json", hasQuery |-> TRUE,
     pages |-> {[pageid |-> NatToString(PageLudwig.id), extract |-> ExtractText]}]

ChainSearchTerm == <<"l","u","d","w","i","g">>

ChainInit ==
    /\ settings \in ChainSettings
    /\ \E sr \in ChainSummaryResponses :
          inv = ReadyToRender(settings, ChainSearchTerm, 1, sr, ChainExtractResponse)
    /\ requests = <<searchRequestUrl(settings, ChainSearchTerm),
                    summaryRequestUrl(settings, PageLudwig.title),
                    extractRequestUrl(settings, PageLudwig.id)>>
    /\ inv2 = NewInvocation
    /\ notices = <<>>
    /\ editor = <<>>

ChainSpec == ChainInit /\ [][RenderNext]_vars

\* the text the k-th replacement of the chain puts in the place of its token
Inserted(k) ==
    LET raw == CASE k = 1 -> SummaryRec.title
                 [] k = 2 -> SummaryRec.url
                 [] k = 3 -> thumbnailTemplateFor(settings, SummaryRec)
                 [] k = 4 -> SummaryRec.thumbnailUrl
                 [] k = 5 -> SummaryRec.description
                 [] k = 6 -> formatWikimediaApiSummary(settings, SummaryRec, inv.searchTerm)
                 [] k = 7 -> formatMediaWikiActionApiIntroText(
                                 settings, inv.mediaWikiActionApiResponse, inv.searchTerm)
                 [] k = 8 -> NatToString(SearchRec.id)
                 [] k = 9 -> SearchRec.key
    IN  GetSubstitution(raw, RecognizedTokens[k], <<>>)

\* text after the replacements k, k + 1, ... of the chain, one after another
RECURSIVE ChainFrom(_, _)
ChainFrom(text, k) ==
    IF k > Len(RecognizedTokens) THEN text
    ELSE ChainFrom(Substituted(text, RecognizedTokens[k], Inserted(k)), k + 1)

\* text with the first occurrence of each pending token replaced in one pass:
\* an inserted text is not scanned
RECURSIVE Simultaneous(_, _)
Simultaneous(text, pending) ==
    LET found == {k \in pending : Contains(text, RecognizedTokens[k])}
        first == CHOOSE k \in found :
                    \A j \in found : IndexOf(text, RecognizedTokens[k])
                                        <= IndexOf(text, RecognizedTokens[j])
        at == IndexOf(text, RecognizedTokens[first])
    IN  IF found = {} THEN text
        ELSE SubSeq(text, 1, at - 1) \o Inserted(first)
             \o Simultaneous(SubSeq(text, at + Len(RecognizedTokens[first]), Len(text)),
                             pending \ {first})

\* the one-pass substitution of the template's own tokens; the
\* {{thumbnailUrl}} of the thumbnail sub-template is set apart, so
\* {{thumbnailUrl}} is replaced after the pass
OnePass ==
    Substituted(Simultaneous(ChosenTemplate, (1..Len(RecognizedTokens)) \ {4}),
                TokThumbnailUrl, Inserted(4))

\* the tokens processed after the j-th that the text inserted for it holds
LaterTokensIn(j) ==
    IF Contains(ChosenTemplate, RecognizedTokens[j])
    THEN {k \in (j + 1)..Len(RecognizedTokens) : Contains(Inserted(j), RecognizedTokens[k])}
    ELSE {}

\* the text inserted for the j-th token holds the k-th token and stands before
\* every other occurrence of the k-th token
Precedes(j, k) ==
    /\ k \in LaterTokensIn(j)
    /\ IndexOf(ChosenTemplate, RecognizedTokens[k]) = 0
        \/ IndexOf(ChosenTemplate, RecognizedTokens[j])
              < IndexOf(ChosenTemplate, RecognizedTokens[k])
    /\ \A h \in 1..Len(RecognizedTokens) :
            (h # j /\ k \in LaterTokensIn(h)) =>
                IndexOf(ChosenTemplate, RecognizedTokens[j])
                    < IndexOf(ChosenTemplate, RecognizedTokens[h])

\* the pairs in which an inserted text is scanned, the thumbnail
\* sub-template's {{thumbnailUrl}} set apart
ScannedPairs ==
    {p \in (1..Len(RecognizedTokens)) \X (1..Len(RecognizedTokens)) :
        p # <<3, 4>> /\ Precedes(p[1], p[2])}

\* the text inserted for the j-th token after the later replacements that
\* find their token in it
RECURSIVE ScannedValue(_, _, _)
ScannedValue(text, j, k) ==
    IF k > Len(RecognizedTokens) THEN text
    ELSE ScannedValue(IF Precedes(j, k)
                      THEN Substituted(text, RecognizedTokens[k], Inserted(k))
                      ELSE text,
                      j, k + 1)

====
